---- MODULE Spec2Model ----
(***************************************************************************)
(* A model of prompt_tester: the Result Store (src/src/storage.py), the    *)
(* Completion Client's pacing and concurrency limiter                      *)
(* (src/promptester/llm_client.py) and the Execution Engine                *)
(* (src/src/test_runner.py).                                               *)
(*                                                                         *)
(* The specifications share the variables:                                 *)
(*   SpecStore  the store's public operations called in any order;         *)
(*   SpecQuery  the store's read operations after well-formed writes;      *)
(*   SpecEnum   generate_experiment_combinations over bounded inputs;      *)
(*   Spec       one invocation of run_experiments / run_experiments_async; *)
(*   SpecResume successive invocations on one TestRunner;                  *)
(*   SpecRerun  the same, the prompt files changing between invocations;   *)
(*   SpecScenario one invocation over a 2 x 2 x 1 matrix with one timeout; *)
(*   SpecOnce   one call of run_single_experiment[_async] at a time;       *)
(*   SpecFleet  concurrent runs on several TestRunner objects.             *)
(* Time is a discrete clock `now`; an optional value (Python None, SQL     *)
(* NULL) is the empty sequence and a present value v is <<v>>.             *)
(***************************************************************************)
EXTENDS Integers, Sequences, FiniteSets, TLC

VARIABLES
    \* ---- ExperimentStorage
    rows,                   \* the experiments table: a set of row records
    nextId,                 \* the next AUTOINCREMENT id
    cache,                  \* _current_run_metadata: run id -> NULL or <<metadata>>
    now,                    \* the clock read by datetime.utcnow() and time.time()
    \* ---- LLMClient
    permits,                \* _rate_limiter._value: free slots of the semaphore
    last_request_time,      \* _last_request_time
    \* ---- TestRunner configuration (fixed at construction)
    mode,                   \* "sync" (run_experiments) or "async" (run_experiments_async)
    prompts,                \* names of the *.md files of prompts_dir, as a set
    test_cases,             \* names of the *.md files of test_cases_dir, as a set
    client_models,          \* [m.name for m in llm_client.models], a sequence
    config_models,          \* config.models: NULL or <<sequence>>
    max_concurrent,         \* llm_client.max_concurrent_requests
    \* ---- one invocation of run_experiments[_async]
    pc,                     \* where the invocation's main flow is
    run_id,                 \* the invocation's run id
    combinations,           \* list(generate_experiment_combinations())
    task,                   \* per combination index: state of its execution
    successful_experiments, \* the running counter of successes
    completed_experiments,  \* the running counter of finished combinations (async)
    \* ---- history (observations only; no action's guard reads them)
    invocation,             \* how many invocations were started
    starts,                 \* start times of the invocation's outbound calls, in order
    hist,                   \* record of observations about the invocation
    \* ---- one call of run_single_experiment[_async] (SpecOnce)
    once,                   \* where the call is, its arguments, what it returned or raised
    \* ---- further TestRunner objects of the process (SpecFleet)
    fleet                   \* per further runner: its client's limiter and its run

vars == <<rows, nextId, cache, now, permits, last_request_time, mode, prompts,
          test_cases, client_models, config_models, max_concurrent, pc, run_id,
          combinations, task, successful_experiments, completed_experiments,
          invocation, starts, hist, once, fleet>>

storeVars == <<rows, nextId, cache>>
clientVars == <<permits, last_request_time>>
configVars == <<mode, prompts, test_cases, client_models, config_models, max_concurrent>>
runVars == <<pc, run_id, combinations, task, successful_experiments, completed_experiments>>
histVars == <<invocation, starts, hist>>

-----------------------------------------------------------------------------
(* Bounds of the model *)

MaxTicks == 3          \* clock ticks after the initial instant
MaxPrompts == 3        \* prompt files
MaxTests == 2          \* test-case files
MaxModels == 2         \* model names
MaxCombos == 3         \* combinations of one engine invocation
MaxCap == 2            \* max_concurrent_requests
MaxInvocations == 2    \* invocations of run_experiments[_async] on one runner (SpecResume)
MaxLiveCombos == 3
MaxLiveTicks == 2
MaxResumeCombos == 2   \* combinations of an invocation in SpecResume
MaxResumeTicks == 2    \* clock ticks after the initial instant in SpecResume
MaxRuns == 2           \* run identifiers
MaxStores == 2         \* rows ever inserted through the store's public operations (SpecStore)
MaxStoreTicks == 1     \* clock ticks after the initial instant in SpecStore
MaxFaults == 1         \* file-load or storage failures injected per invocation
MaxFleetCombos == 2    \* combinations of each run in SpecFleet
MaxFleetTicks == 2     \* clock ticks after the initial instant in SpecFleet
MaxQueryStores == 3    \* rows ever inserted in SpecQuery
MaxQueryTicks == 2     \* clock ticks after the initial instant in SpecQuery
MaxScenarioTicks == 6  \* clock ticks after the initial instant in SpecScenario
MaxTriggers == 2       \* trigger words in a provider error text (SpecOnce)
MaxOnceTicks == 2      \* clock ticks after the initial instant in SpecOnce
MaxOnceCalls == 2      \* calls of one behaviour of SpecOnce that reach the provider

\* request_delay_seconds, in clock ticks
request_delay == 2

PromptNames == 1..MaxPrompts
TestNames == 1..MaxTests
ModelNames == 1..MaxModels
Runs == 1..MaxRuns
T0 == request_delay    \* the initial instant: time.time() is far from _last_request_time = 0

-----------------------------------------------------------------------------
(* Values *)

NULL == <<>>
Some(v) == <<v>>
IsNull(x) == x = <<>>
Val(x) == x[1]

Min(a, b) == IF a <= b THEN a ELSE b

RECURSIVE SetToSortedSeq(_)
SetToSortedSeq(S) ==
    IF S = {} THEN <<>>
    ELSE LET m == CHOOSE x \in S : \A y \in S : x <= y
         IN  <<m>> \o SetToSortedSeq(S \ {m})

SeqToSet(s) == {s[i] : i \in 1..Len(s)}

-----------------------------------------------------------------------------
(* ExperimentStorage *)

STATUSES == {"success", "api_error", "timeout", "rate_limit",
             "invalid_model", "network_error", "unknown_error"}

Key(r) == <<r.run_id, r.prompt_file, r.test_case_file, r.model_name>>

RunRows(tbl, run) == {r \in tbl : r.run_id = run}

\* The mutant registers nothing.
StartRunSkipped(run, total, snapshot) == UNCHANGED cache

\* The mutant keeps the metadata of a run that is already registered.
StartRunKeepsFirst(run, total, snapshot) ==
    cache' = IF ~IsNull(cache[run]) THEN cache
             ELSE [cache EXCEPT ![run] =
                     Some([run_started_timestamp |-> now,
                           run_completed_timestamp |-> NULL,
                           run_total_experiments |-> Some(total),
                           run_successful_experiments |-> NULL,
                           run_config_snapshot |-> snapshot])]

\* start_run: only the in-memory cache is written.
start_run(run, total, snapshot) ==
    cache' = [cache EXCEPT ![run] =
                Some([run_started_timestamp |-> now,
                      run_completed_timestamp |-> NULL,
                      run_total_experiments |-> Some(total),
                      run_successful_experiments |-> NULL,
                      run_config_snapshot |-> snapshot])]

\* _get_run_metadata: the cache entry, else the metadata columns of one stored row
\* of the run (SELECT ... LIMIT 1 without ORDER BY: any of them), else defaults.
RunMetadataChoices(run) ==
    IF ~IsNull(cache[run]) THEN {Val(cache[run])}
    ELSE IF RunRows(rows, run) # {}
         THEN {[run_started_timestamp |-> r.run_started_timestamp,
                run_completed_timestamp |-> r.run_completed_timestamp,
                run_total_experiments |-> r.run_total_experiments,
                run_successful_experiments |-> r.run_successful_experiments,
                run_config_snapshot |-> r.run_config_snapshot] : r \in RunRows(rows, run)}
         ELSE {[run_started_timestamp |-> now,
                run_completed_timestamp |-> NULL,
                run_total_experiments |-> NULL,
                run_successful_experiments |-> NULL,
                run_config_snapshot |-> NULL]}

\* The row store_result builds from its arguments and the run metadata.
NewRow(run, p, t, m, payload, md) ==
    [id |-> nextId, run_id |-> run, timestamp |-> now,
     prompt_file |-> p, test_case_file |-> t, model_name |-> m,
     system_message |-> payload.system_message,
     user_message |-> payload.user_message,
     response_content |-> payload.response_content,
     status |-> payload.status,
     error_details |-> payload.error_details,
     run_started_timestamp |-> md.run_started_timestamp,
     run_completed_timestamp |-> md.run_completed_timestamp,
     run_total_experiments |-> md.run_total_experiments,
     run_successful_experiments |-> md.run_successful_experiments,
     run_config_snapshot |-> md.run_config_snapshot]

\* The mutant is a table without the NOT NULL and CHECK constraints.
NoConstraints(row) == TRUE

\* The table's column constraints: NOT NULL columns and CHECK(status IN (...)).
SatisfiesConstraints(row) ==
    /\ ~IsNull(row.system_message)
    /\ ~IsNull(row.user_message)
    /\ row.status \in STATUSES

\* INSERT OR ... : what a constraint-satisfying insert does to the table.
\* The mutant keeps the conflicting row (a plain INSERT without the UNIQUE constraint).
InsertKeepingConflicts(tbl, row) == tbl \cup {row}

\* The mutant is an upsert that updates the status and error columns of the
\* conflicting row and leaves its other columns.
UpsertStatusOnly(tbl, row) ==
    IF \E r \in tbl : Key(r) = Key(row)
    THEN {IF Key(r) = Key(row)
          THEN [r EXCEPT !.status = row.status, !.error_details = row.error_details,
                         !.id = row.id, !.timestamp = row.timestamp]
          ELSE r : r \in tbl}
    ELSE tbl \cup {row}

\* INSERT OR REPLACE under UNIQUE(run_id, prompt_file, test_case_file, model_name):
\* the row with the same key, if any, is deleted and the new row is inserted.
InsertOrReplace(tbl, row) == {r \in tbl : Key(r) # Key(row)} \cup {row}

\* store_result: one transaction; a constraint violation aborts and rolls back.
store_result(run, p, t, m, payload) ==
    \E md \in RunMetadataChoices(run) :
        LET row == NewRow(run, p, t, m, payload, md)
        IN  IF SatisfiesConstraints(row)
            THEN /\ rows' = InsertOrReplace(rows, row)
                 /\ nextId' = nextId + 1
            ELSE /\ rows' = rows
                 /\ nextId' = nextId

\* The INSERT violates a NOT NULL or CHECK constraint: sqlite3.IntegrityError leaves
\* store_result after _get_connection rolled the transaction back.
store_result_raises(run, p, t, m, payload) ==
    \E md \in RunMetadataChoices(run) :
        ~SatisfiesConstraints(NewRow(run, p, t, m, payload, md))

\* The mutant completes only the rows that carry no completion timestamp yet.
CompleteOnlyOpenRows(tbl, run, k) ==
    {IF r.run_id = run /\ IsNull(r.run_completed_timestamp)
     THEN [r EXCEPT !.run_completed_timestamp = Some(now),
                    !.run_successful_experiments = Some(k)]
     ELSE r : r \in tbl}

\* The mutant is the UPDATE without its WHERE clause.
CompleteEveryRun(tbl, run, k) ==
    {[r EXCEPT !.run_completed_timestamp = Some(now),
               !.run_successful_experiments = Some(k)] : r \in tbl}

\* complete_run: UPDATE ... WHERE run_id = ?, then the cache entry if present.
CompletedRows(tbl, run, k) ==
    {IF r.run_id = run
     THEN [r EXCEPT !.run_completed_timestamp = Some(now),
                    !.run_successful_experiments = Some(k)]
     ELSE r : r \in tbl}

complete_run(run, k) ==
    /\ rows' = CompletedRows(rows, run, k)
    /\ cache' = IF IsNull(cache[run]) THEN cache
                ELSE [cache EXCEPT ![run] =
                        Some([Val(cache[run]) EXCEPT
                                !.run_completed_timestamp = Some(now),
                                !.run_successful_experiments = Some(k)])]

-----------------------------------------------------------------------------
(* LLMClient: error classification *)

\* A provider error text is the set of trigger substrings that str(error).lower()
\* contains.
Triggers == {"gemini_api_key", "google_api_key", "quota exceeded", "billing",
             "rate limit", "429", "api key", "authentication", "401", "timeout",
             "network", "connection", "model", "not found", "invalid"}

\* Model names that contain "gemini".
GeminiModels == {2}

Has(text, trig) == trig \in text

\* The mutant takes every error of a Gemini model that does not name its API key
\* for a quota error.
ClassifyGeminiAsQuota(text, model_name) ==
    IF model_name \in GeminiModels
    THEN IF Has(text, "gemini_api_key") \/ Has(text, "google_api_key")
         THEN "AuthenticationError" ELSE "RateLimitError"
    ELSE IF Has(text, "rate limit") \/ Has(text, "429") THEN "RateLimitError"
    ELSE IF Has(text, "api key") \/ Has(text, "authentication") \/ Has(text, "401")
    THEN "AuthenticationError"
    ELSE IF Has(text, "timeout") THEN "TimeoutError"
    ELSE IF Has(text, "network") \/ Has(text, "connection") THEN "NetworkError"
    ELSE IF Has(text, "model") /\ (Has(text, "not found") \/ Has(text, "invalid"))
    THEN "InvalidModelError"
    ELSE "APIError"

\* The mutant tests the network triggers before the timeout trigger.
ClassifyNetworkFirst(text, model_name) ==
    IF model_name \in GeminiModels
         /\ (Has(text, "gemini_api_key") \/ Has(text, "google_api_key"))
    THEN "AuthenticationError"
    ELSE IF model_name \in GeminiModels
              /\ (Has(text, "quota exceeded") \/ Has(text, "billing"))
    THEN "RateLimitError"
    ELSE IF Has(text, "rate limit") \/ Has(text, "429") THEN "RateLimitError"
    ELSE IF Has(text, "api key") \/ Has(text, "authentication") \/ Has(text, "401")
    THEN "AuthenticationError"
    ELSE IF Has(text, "network") \/ Has(text, "connection") THEN "NetworkError"
    ELSE IF Has(text, "timeout") THEN "TimeoutError"
    ELSE IF Has(text, "model") /\ (Has(text, "not found") \/ Has(text, "invalid"))
    THEN "InvalidModelError"
    ELSE "APIError"

\* _classify_error: the exception class raised for an error text and a model name.
classify_error(text, model_name) ==
    IF model_name \in GeminiModels
         /\ (Has(text, "gemini_api_key") \/ Has(text, "google_api_key"))
    THEN "AuthenticationError"
    ELSE IF model_name \in GeminiModels
              /\ (Has(text, "quota exceeded") \/ Has(text, "billing"))
    THEN "RateLimitError"
    ELSE IF Has(text, "rate limit") \/ Has(text, "429") THEN "RateLimitError"
    ELSE IF Has(text, "api key") \/ Has(text, "authentication") \/ Has(text, "401")
    THEN "AuthenticationError"
    ELSE IF Has(text, "timeout") THEN "TimeoutError"
    ELSE IF Has(text, "network") \/ Has(text, "connection") THEN "NetworkError"
    ELSE IF Has(text, "model") /\ (Has(text, "not found") \/ Has(text, "invalid"))
    THEN "InvalidModelError"
    ELSE "APIError"

\* The subclasses of LLMError.
LLMErrorClasses == {"RateLimitError", "AuthenticationError", "TimeoutError",
                    "NetworkError", "InvalidModelError", "APIError"}

-----------------------------------------------------------------------------
(* TestRunner: enumeration *)

\* discover_prompts / discover_test_cases: sorted(glob("*.md")).
discover(files) == SetToSortedSeq(files)

\* config.models or llm_client.get_available_models(): None and [] are both falsy.
ModelsUsed ==
    IF ~IsNull(config_models) /\ Val(config_models) # <<>>
    THEN Val(config_models) ELSE client_models

\* The three nested for loops of generate_experiment_combinations.
LoopModels(p, t, ms) == [i \in 1..Len(ms) |-> <<p, t, ms[i]>>]

RECURSIVE LoopTests(_, _, _)
LoopTests(p, ts, ms) ==
    IF ts = <<>> THEN <<>>
    ELSE LoopModels(p, Head(ts), ms) \o LoopTests(p, Tail(ts), ms)

RECURSIVE LoopPrompts(_, _, _)
LoopPrompts(ps, ts, ms) ==
    IF ps = <<>> THEN <<>>
    ELSE LoopTests(Head(ps), ts, ms) \o LoopPrompts(Tail(ps), ts, ms)

\* The mutant sorts the model list as the file lists are sorted.
SortedModelList(ms) == SetToSortedSeq(SeqToSet(ms))

\* The model list is iterated in the order it is given.
ModelOrder(ms) == ms

generate_experiment_combinations ==
    LoopPrompts(discover(prompts), discover(test_cases), ModelOrder(ModelsUsed))

-----------------------------------------------------------------------------
(* TestRunner: one experiment *)

\* `except Exception` (test_runner.py 239, 278, 423; llm_client.py 170, 232) catches
\* every exception class except the BaseException-only ones.
BaseExceptionOnly == {"KeyboardInterrupt", "CancelledError"}

\* The mutant is `except BaseException`.
CatchesEverything(cls) == TRUE

CaughtByExceptException(cls) == cls \notin BaseExceptionOnly

\* load_file_content: the text of a file, opaque.
load_file_content(f) == Some(<<"text", f>>)

\* _create_experiment_result
create_experiment_result(c) ==
    [system_message |-> load_file_content(c[1]),
     user_message |-> load_file_content(c[2]),
     response_content |-> NULL,
     status |-> "success",
     error_details |-> NULL]

\* The try branch: the response is recorded.
SuccessResult(c) ==
    [create_experiment_result(c) EXCEPT !.response_content = Some("response"),
                                        !.status = "success"]

\* The mutant's mapping misspells the status of a timeout.
ClassifyWithTypo(cls) ==
    CASE cls = "RateLimitError" -> "rate_limit"
      [] cls = "AuthenticationError" -> "api_error"
      [] cls = "TimeoutError" -> "timed_out"
      [] cls = "NetworkError" -> "network_error"
      [] cls = "InvalidModelError" -> "invalid_model"
      [] cls = "APIError" -> "api_error"
      [] OTHER -> "unknown_error"

\* The mutant's mapping lacks the 'APIError' entry.
ClassifyWithoutAPIError(cls) ==
    CASE cls = "RateLimitError" -> "rate_limit"
      [] cls = "AuthenticationError" -> "api_error"
      [] cls = "TimeoutError" -> "timeout"
      [] cls = "NetworkError" -> "network_error"
      [] cls = "InvalidModelError" -> "invalid_model"
      [] OTHER -> "unknown_error"

\* _classify_llm_error: error_mapping.get(type(error).__name__, 'unknown_error')
classify_llm_error(cls) ==
    CASE cls = "RateLimitError" -> "rate_limit"
      [] cls = "AuthenticationError" -> "api_error"
      [] cls = "TimeoutError" -> "timeout"
      [] cls = "NetworkError" -> "network_error"
      [] cls = "InvalidModelError" -> "invalid_model"
      [] cls = "APIError" -> "api_error"
      [] OTHER -> "unknown_error"

\* The mutant sets the status and records no detail.
HandleWithoutDetail(result, cls, msg) ==
    [result EXCEPT
        !.status = IF cls \in LLMErrorClasses THEN classify_llm_error(cls)
                   ELSE "unknown_error"]

\* _handle_experiment_error
handle_experiment_error(result, cls, msg) ==
    [result EXCEPT
        !.status = IF cls \in LLMErrorClasses THEN classify_llm_error(cls)
                   ELSE "unknown_error",
        !.error_details = Some([error_type |-> cls, message |-> msg,
                                timestamp |-> now])]

\* What the provider call can do: return a response, or fail with an error text.
EngineErrorTexts == {{"timeout"}, {}}
ProviderOutcomes == {Some(t) : t \in EngineErrorTexts} \cup {NULL}

\* A model whose provider answers every request except the one for prompt 2 with
\* test case 2, which it fails with a timeout.
ModelZ == MaxModels + 1

\* What the provider can do with the request of combination c.
ServiceOutcomes(c) ==
    IF c[3] = ModelZ
    THEN IF c[1] = 2 /\ c[2] = 2 THEN {Some({"timeout"})} ELSE {NULL}
    ELSE ProviderOutcomes

\* The result of an experiment whose provider call ended with `outcome`
\* (complete / complete_async raise _classify_error(e, model_name) on a failure).
CallResult(c, outcome) ==
    IF IsNull(outcome) THEN SuccessResult(c)
    ELSE handle_experiment_error(create_experiment_result(c),
                                 classify_error(Val(outcome), c[3]), Val(outcome))

\* The mutant omits the membership test that opens complete / complete_async.
AnyModelAccepted(m) == TRUE

\* model_name in self.get_available_models()
ModelConfigured(m) == m \in SeqToSet(client_models)

\* The mutant raises InvalidModelError, an LLMError, for a model that is not configured.
UnconfiguredAsInvalidModel(c) ==
    handle_experiment_error(create_experiment_result(c), "InvalidModelError",
                            {"not configured"})

\* complete / complete_async with a model that is not configured: ValueError, caught
\* by the experiment core like any other Exception.
UnconfiguredResult(c) ==
    handle_experiment_error(create_experiment_result(c), "ValueError", {"not configured"})

\* The mutant counts every finished experiment as a success.
CountEvery(n, status) == n + 1

\* if result.status == "success": successful_experiments += 1
CountSuccess(n, status) == IF status = "success" THEN n + 1 ELSE n

\* _create_run_config_snapshot
create_run_config_snapshot ==
    [models |-> client_models,
     prompts_count |-> Cardinality(prompts),
     test_cases_count |-> Cardinality(test_cases),
     execution_mode |-> IF mode = "async" THEN "asynchronous" ELSE "synchronous"]

-----------------------------------------------------------------------------
(* Task states *)

Unsettled == {"pending", "sem", "sleep", "call"}
Holding == {"sleep", "call"}       \* states of a task inside `async with _rate_limiter`
Ended == {"returned", "raised", "interrupted"}

N == Len(combinations)
Tasks == 1..N
Live == {i \in Tasks : task[i].st \in Unsettled}

TaskRec(st, wake, status) == [st |-> st, wake |-> wake, status |-> status]
SetTask(i, st, wake, status) == [task EXCEPT ![i] = TaskRec(st, wake, status)]

\* A task cancelled by the event loop leaves `async with _rate_limiter`, releasing
\* the slot it holds.
CancelAll == [i \in Tasks |-> IF task[i].st \in Unsettled
                              THEN TaskRec("cancelled", 0, NULL) ELSE task[i]]
HeldBy(S) == Cardinality({i \in S : task[i].st \in Holding})

\* Observations about the current invocation:
\*   faults            file-load and storage failures so far
\*   complete_called   storage.complete_run was called
\*   complete_pending  some task was unfinished when complete_run was called
\*   swallowed         an exception of a task was caught at the await of gather
\*   interrupted       an interrupt arrived
\*   fresh             the run had no stored row when the invocation began
\*   prev              NULL, or how the invocation before this one ended
Hist0 == [faults |-> 0, complete_called |-> FALSE, complete_pending |-> FALSE,
          swallowed |-> FALSE, interrupted |-> FALSE, fresh |-> TRUE, prev |-> NULL]

Keys(tbl) == {Key(r) : r \in tbl}

\* No further TestRunner was constructed.
Fleet0 == <<>>

\* No call of run_single_experiment[_async] is under way.
Once0 == [pc |-> "idle", c |-> NULL, wake |-> 0, result |-> NULL, raised |-> NULL]

Outcome ==
    [run |-> run_id, returned |-> (pc = "returned"), faults |-> hist.faults,
     keys |-> Keys(RunRows(rows, run_id)), successful |-> successful_experiments]

-----------------------------------------------------------------------------
(* TestRunner: run_experiments and run_experiments_async *)

\* Run identifiers are interchangeable: the first invocation takes run 1, a later one
\* resumes a run already used or takes the next unused one (generate_run_id).
RunChoices == 1..Min(invocation + 1, MaxRuns)

\* The head of both methods, up to and including storage.start_run.
Begin(rid, maxInv) ==
    /\ pc = "idle" \/ (pc \in Ended /\ Live = {})
    /\ invocation < maxInv
    /\ combinations' = generate_experiment_combinations
    /\ start_run(rid, Len(combinations'), Some(create_run_config_snapshot))
    /\ task' = [i \in 1..Len(combinations') |-> TaskRec("pending", 0, NULL)]
    /\ run_id' = rid
    /\ pc' = IF mode = "async" THEN "gather" ELSE "loop"
    /\ successful_experiments' = 0
    /\ completed_experiments' = 0
    /\ invocation' = invocation + 1
    /\ starts' = <<>>
    /\ hist' = [Hist0 EXCEPT !.fresh = (RunRows(rows, rid) = {}),
                              !.prev = IF pc = "idle" THEN NULL ELSE Some(Outcome)]
    /\ UNCHANGED <<rows, nextId, now, clientVars, configVars, fleet, once>>

\* The mutant runs a failed experiment again.
RetryOnFailure(status) == IF status = "success" THEN "done" ELSE "pending"

\* Once its result is stored the experiment is over, whatever its status: neither
\* run method has a retry.
AfterStore(status) == "done"

\* _store_experiment_result, then the progress counters. The store raises when the
\* storage medium is unavailable; the exception leaves the experiment's task (async)
\* or run_experiments itself (sync).
StoreAndCount(i, res) ==
    LET c == combinations[i] IN
    \/ /\ store_result(run_id, c[1], c[2], c[3], res)
       /\ task' = SetTask(i, AfterStore(res.status), 0, Some(res.status))
       /\ successful_experiments' = CountSuccess(successful_experiments, res.status)
       /\ completed_experiments' =
              IF mode = "async" THEN completed_experiments + 1 ELSE completed_experiments
       /\ UNCHANGED <<pc, hist>>
    \/ /\ hist.faults < MaxFaults
       /\ hist' = [hist EXCEPT !.faults = @ + 1]
       /\ task' = SetTask(i, "raised", 0, Some(res.status))
       /\ pc' = IF mode = "sync" THEN "raised" ELSE pc
       /\ UNCHANGED <<rows, nextId, successful_experiments, completed_experiments>>

\* load_file_content raises (the file was removed or is unreadable): outside the
\* try block of the experiment core, so the exception leaves the experiment.
LoadFails(i) ==
    /\ hist.faults < MaxFaults
    /\ hist' = [hist EXCEPT !.faults = @ + 1]
    /\ task' = SetTask(i, "raised", 0, NULL)
    /\ pc' = IF mode = "sync" THEN "raised" ELSE pc
    /\ UNCHANGED <<rows, nextId, successful_experiments, completed_experiments>>

\* _print_run_summary (divides by total_count), then storage.complete_run.
Finalize(swallowed, interrupted) ==
    IF N = 0
    THEN /\ pc' = "raised"
         /\ hist' = [hist EXCEPT !.interrupted = interrupted]
         /\ UNCHANGED <<rows, cache>>
    ELSE \/ /\ complete_run(run_id, successful_experiments)
            /\ pc' = "returned"
            /\ hist' = [hist EXCEPT !.complete_called = TRUE,
                                    !.complete_pending = (Live # {}),
                                    !.swallowed = swallowed,
                                    !.interrupted = interrupted]
         \/ /\ hist.faults < MaxFaults
            /\ hist' = [hist EXCEPT !.faults = @ + 1, !.interrupted = interrupted]
            /\ pc' = "raised"
            /\ UNCHANGED <<rows, cache>>

-----------------------------------------------------------------------------
(* Sequential mode: run_experiments with LLMClient.complete *)

\* The mutant takes the combinations in any order.
LoopAnyOrder(i) == TRUE

\* for i, (...) in enumerate(combinations, 1): the body runs for combination i after
\* it ran to its end for every combination before i.
LoopReaches(i) == \A j \in 1..(i - 1) : task[j].st = "done"

SyncStart(i) ==
    /\ mode = "sync" /\ pc = "loop"
    /\ task[i].st = "pending"
    /\ LoopReaches(i)
    /\ \/ /\ LoadFails(i)
          /\ UNCHANGED <<starts>>
       \/ /\ ~ModelConfigured(combinations[i][3])
          /\ StoreAndCount(i, UnconfiguredResult(combinations[i]))
          /\ UNCHANGED <<starts>>
       \/ /\ ModelConfigured(combinations[i][3])
          /\ LET elapsed == now - last_request_time IN
             IF elapsed < request_delay
             THEN /\ task' = SetTask(i, "sleep", now + (request_delay - elapsed), NULL)
                  /\ UNCHANGED <<starts>>
             ELSE /\ task' = SetTask(i, "call", 0, NULL)
                  /\ starts' = Append(starts, now)
          /\ UNCHANGED <<rows, nextId, pc, hist, successful_experiments,
                         completed_experiments>>
    /\ UNCHANGED <<cache, now, clientVars, configVars, fleet, once, run_id, combinations, invocation>>

\* time.sleep returns; completion(...) starts.
SyncWake(i) ==
    /\ mode = "sync" /\ pc = "loop"
    /\ task[i].st = "sleep"
    /\ now >= task[i].wake
    /\ task' = SetTask(i, "call", 0, NULL)
    /\ starts' = Append(starts, now)
    /\ UNCHANGED <<storeVars, now, clientVars, configVars, fleet, once, pc, run_id, combinations,
                   successful_experiments, completed_experiments, invocation, hist>>

\* complete: self._last_request_time = time.time() follows completion(...) inside the
\* try block, so it runs only when the call returned.
SyncStamp(outcome) == IF IsNull(outcome) THEN now ELSE last_request_time

SyncReturn(i) ==
    /\ mode = "sync" /\ pc = "loop"
    /\ task[i].st = "call"
    /\ \E outcome \in ServiceOutcomes(combinations[i]) :
          /\ last_request_time' = SyncStamp(outcome)
          /\ StoreAndCount(i, CallResult(combinations[i], outcome))
    /\ UNCHANGED <<cache, now, permits, configVars, fleet, once, run_id, combinations, invocation,
                   starts>>

SyncFinish ==
    /\ mode = "sync" /\ pc = "loop"
    /\ \A i \in Tasks : task[i].st = "done"
    /\ Finalize(FALSE, FALSE)
    /\ UNCHANGED <<nextId, now, clientVars, configVars, fleet, once, run_id, combinations, task,
                   successful_experiments, completed_experiments, invocation, starts>>

\* KeyboardInterrupt while run_experiments executes. Inside a call or a pacing sleep
\* it passes the `except Exception` clauses of complete and of the experiment core.
SyncInterrupt ==
    /\ mode = "sync" /\ pc = "loop"
    /\ IF \E i \in Tasks : task[i].st \in Holding
          /\ CaughtByExceptException("KeyboardInterrupt")
       THEN \E i \in Tasks :
               LET c == combinations[i]
                   res == CallResult(c, Some({}))
               IN  /\ task[i].st \in Holding
                   /\ store_result(run_id, c[1], c[2], c[3], res)
                   /\ task' = SetTask(i, "done", 0, Some(res.status))
                   /\ successful_experiments' =
                          CountSuccess(successful_experiments, res.status)
                   /\ hist' = [hist EXCEPT !.interrupted = TRUE]
                   /\ UNCHANGED <<cache, pc, completed_experiments>>
       ELSE /\ pc' = "interrupted"
            /\ task' = CancelAll
            /\ hist' = [hist EXCEPT !.interrupted = TRUE]
            /\ UNCHANGED <<storeVars, successful_experiments, completed_experiments>>
    /\ UNCHANGED <<now, clientVars, configVars, fleet, once, run_id, combinations, invocation, starts>>

-----------------------------------------------------------------------------
(* Bounded-concurrent mode: run_experiments_async with LLMClient.complete_async *)

\* The mutant enters the critical section whether or not a slot is free.
AlwaysAdmit(free) == TRUE

\* asyncio.Semaphore: acquire() proceeds only while the counter is positive.
CanAcquire(free) == free > 0

\* The mutant leaves `async with` without giving the slot back.
ReleaseNothing(free) == free

\* The exit of `async with self._rate_limiter`, by return or by exception:
\* Semaphore.release().
Release(free) == free + 1

\* Inside `async with self._rate_limiter`: the pacing check, then either the sleep
\* or the timestamp update and the outbound call.
Paced(i) ==
    LET elapsed == now - last_request_time IN
    IF elapsed < request_delay
    THEN /\ task' = SetTask(i, "sleep", now + (request_delay - elapsed), NULL)
         /\ UNCHANGED <<last_request_time, starts>>
    ELSE /\ task' = SetTask(i, "call", 0, NULL)
         /\ last_request_time' = now
         /\ starts' = Append(starts, now)

\* The first step of an experiment's task, up to its first suspension. The event loop
\* runs the tasks' first steps in the order gather created them.
AsyncStart(i) ==
    /\ mode = "async" /\ pc = "gather"
    /\ task[i].st = "pending"
    /\ \A j \in 1..(i - 1) : task[j].st # "pending"
    /\ \/ /\ LoadFails(i)
          /\ UNCHANGED <<clientVars, starts>>
       \/ /\ ~ModelConfigured(combinations[i][3])
          /\ StoreAndCount(i, UnconfiguredResult(combinations[i]))
          /\ UNCHANGED <<clientVars, starts>>
       \/ /\ ModelConfigured(combinations[i][3])
          /\ IF CanAcquire(permits)
             THEN /\ permits' = permits - 1
                  /\ Paced(i)
             ELSE /\ task' = SetTask(i, "sem", 0, NULL)
                  /\ UNCHANGED <<clientVars, starts>>
          /\ UNCHANGED <<rows, nextId, pc, hist, successful_experiments,
                         completed_experiments>>
    /\ UNCHANGED <<cache, now, configVars, fleet, once, run_id, combinations, invocation>>

\* The event loop resumes a suspended task only after the first steps of all tasks,
\* which are queued ahead of every wake-up.
AllStarted == \A i \in Tasks : task[i].st # "pending"

\* A task suspended in acquire() is resumed when a slot is free.
AsyncAcquire(i) ==
    /\ mode = "async" /\ pc \in {"gather", "returned"}
    /\ AllStarted
    /\ task[i].st = "sem"
    /\ CanAcquire(permits)
    /\ permits' = permits - 1
    /\ Paced(i)
    /\ UNCHANGED <<storeVars, now, configVars, fleet, once, pc, run_id, combinations,
                   successful_experiments, completed_experiments, invocation, hist>>

\* asyncio.sleep(delay_needed) returns: the timestamp is set and the call starts.
AsyncWake(i) ==
    /\ mode = "async" /\ pc \in {"gather", "returned"}
    /\ AllStarted
    /\ task[i].st = "sleep"
    /\ now >= task[i].wake
    /\ task' = SetTask(i, "call", 0, NULL)
    /\ last_request_time' = now
    /\ starts' = Append(starts, now)
    /\ UNCHANGED <<storeVars, now, permits, configVars, fleet, once, pc, run_id, combinations,
                   successful_experiments, completed_experiments, invocation, hist>>

\* acompletion returns or raises; the slot is released on the way out of the
\* `async with`; the result is stored and counted without further suspension
\* (progress_lock is free whenever it is requested).
AsyncReturn(i) ==
    /\ mode = "async" /\ pc \in {"gather", "returned"}
    /\ AllStarted
    /\ task[i].st = "call"
    /\ permits' = Release(permits)
    /\ \E outcome \in ServiceOutcomes(combinations[i]) :
          StoreAndCount(i, CallResult(combinations[i], outcome))
    /\ UNCHANGED <<cache, now, last_request_time, configVars, fleet, once, run_id, combinations,
                   invocation, starts>>

\* `await asyncio.gather(*tasks, return_exceptions=False)` returns when every task
\* is done, or raises the first exception of a task as soon as that task failed; the
\* except clause prints and falls through to the finalisation. The awaiting
\* coroutine is resumed after the first steps of all tasks.
AsyncFinish ==
    /\ mode = "async" /\ pc = "gather"
    /\ AllStarted
    /\ \/ \A i \in Tasks : task[i].st = "done"
       \/ /\ \E i \in Tasks : task[i].st = "raised"
          /\ CaughtByExceptException("OperationalError")
    /\ Finalize(\E i \in Tasks : task[i].st = "raised", FALSE)
    /\ UNCHANGED <<nextId, now, clientVars, configVars, fleet, once, run_id, combinations, task,
                   successful_experiments, completed_experiments, invocation, starts>>

\* The event loop is closed after the main coroutine ended (asyncio.run): tasks
\* still pending are cancelled.
LoopShutdown ==
    /\ mode = "async" /\ pc \in Ended
    /\ Live # {}
    /\ task' = CancelAll
    /\ permits' = permits + HeldBy(Live)
    /\ UNCHANGED <<storeVars, now, last_request_time, configVars, fleet, once, pc, run_id,
                   combinations, successful_experiments, completed_experiments,
                   histVars>>

\* An interrupt while the batch is awaited: the main task is cancelled at the await
\* of gather, which cancels its children. CancelledError passes `except Exception`.
AsyncInterrupt ==
    /\ mode = "async" /\ pc = "gather"
    /\ task' = CancelAll
    /\ permits' = permits + HeldBy(Live)
    /\ IF CaughtByExceptException("CancelledError")
       THEN Finalize(TRUE, TRUE)
       ELSE /\ pc' = "interrupted"
            /\ hist' = [hist EXCEPT !.interrupted = TRUE]
            /\ UNCHANGED <<rows, cache>>
    /\ UNCHANGED <<nextId, now, last_request_time, configVars, fleet, once, run_id, combinations,
                   successful_experiments, completed_experiments, invocation, starts>>

\* release() schedules the wake-up of a task suspended in acquire() at once: no
\* time passes while such a task can be resumed.
WakeupDue == AllStarted /\ permits > 0 /\ \E i \in Tasks : task[i].st = "sem"

\* Time passes while an invocation or one of its tasks is active.
Tick(maxTicks) ==
    /\ pc \in {"loop", "gather"} \/ Live # {}
    /\ ~WakeupDue
    /\ now < T0 + maxTicks
    /\ now' = now + 1
    /\ UNCHANGED <<storeVars, clientVars, configVars, fleet, once, runVars, histVars>>

\* Time as the event loop sees it while it is left to itself: the clock moves on
\* for as long as a task sleeps, and for at most MaxLiveTicks ticks otherwise.
LiveTick ==
    /\ pc = "gather" \/ Live # {}
    /\ ~WakeupDue
    /\ \/ now < T0 + MaxLiveTicks
       \/ \E i \in Tasks : task[i].st = "sleep" /\ now < task[i].wake
    /\ now' = now + 1
    /\ UNCHANGED <<storeVars, clientVars, configVars, fleet, once, runVars, histVars>>

-----------------------------------------------------------------------------
(* Spec: the engine *)

EngineClientModels == {<<>>, <<1>>, <<2, 1>>}
EngineConfigModels == {NULL, Some(<<2>>)}

Idle ==
    /\ pc = "idle"
    /\ run_id = 0
    /\ combinations = <<>>
    /\ task = <<>>
    /\ successful_experiments = 0
    /\ completed_experiments = 0
    /\ invocation = 0
    /\ starts = <<>>
    /\ hist = Hist0
    /\ once = Once0
    /\ fleet = Fleet0

EmptyStore ==
    /\ rows = {}
    /\ nextId = 1
    /\ cache = [r \in Runs |-> NULL]
    /\ now = T0

EngineInit(maxCombos) ==
    /\ EmptyStore
    /\ Idle
    /\ mode \in {"sync", "async"}
    /\ \E np \in 1..MaxPrompts : prompts = 1..np
    /\ \E nt \in 1..MaxTests : test_cases = 1..nt
    /\ client_models \in EngineClientModels
    /\ config_models \in EngineConfigModels
    /\ Len(generate_experiment_combinations) <= maxCombos
    /\ max_concurrent \in 1..MaxCap
    /\ mode = "sync" => max_concurrent = 1
    /\ permits = max_concurrent
    /\ last_request_time = 0

EngineNext(maxInv, maxTicks) ==
    \/ \E rid \in RunChoices : Begin(rid, maxInv)
    \/ \E i \in Tasks : SyncStart(i)
    \/ \E i \in Tasks : SyncWake(i)
    \/ \E i \in Tasks : SyncReturn(i)
    \/ SyncFinish
    \/ SyncInterrupt
    \/ \E i \in Tasks : AsyncStart(i)
    \/ \E i \in Tasks : AsyncAcquire(i)
    \/ \E i \in Tasks : AsyncWake(i)
    \/ \E i \in Tasks : AsyncReturn(i)
    \/ AsyncFinish
    \/ LoopShutdown
    \/ AsyncInterrupt
    \/ Tick(maxTicks)

\* One invocation of run_experiments or run_experiments_async.
Init == EngineInit(MaxCombos)
Next == EngineNext(1, MaxTicks)
Spec == Init /\ [][Next]_vars

\* One invocation of run_experiments_async under a fair event loop: a task that can
\* take its next step takes it, a call in flight returns or fails, a sleep ends and
\* asyncio.run closes the loop. Interrupts and failures may happen, none has to.
InitLive == EngineInit(MaxLiveCombos) /\ mode = "async"

NextLive ==
    \/ \E rid \in RunChoices : Begin(rid, 1)
    \/ \E i \in Tasks : AsyncStart(i)
    \/ \E i \in Tasks : AsyncAcquire(i)
    \/ \E i \in Tasks : AsyncWake(i)
    \/ \E i \in Tasks : AsyncReturn(i)
    \/ AsyncFinish
    \/ LoopShutdown
    \/ AsyncInterrupt
    \/ LiveTick

FairLoop ==
    /\ WF_vars(\E i \in Tasks : AsyncStart(i))
    /\ WF_vars(\E i \in Tasks : AsyncAcquire(i))
    /\ WF_vars(\E i \in Tasks : AsyncWake(i))
    /\ WF_vars(\E i \in Tasks : AsyncReturn(i))
    /\ WF_vars(AsyncFinish)
    /\ WF_vars(LoopShutdown)
    /\ WF_vars(LiveTick)

SpecLive == InitLive /\ [][NextLive]_vars /\ FairLoop

\* Up to MaxInvocations invocations, one after the other, on the same TestRunner.
InitResume == EngineInit(MaxResumeCombos)
NextResume == EngineNext(MaxInvocations, MaxResumeTicks)
SpecResume == InitResume /\ [][NextResume]_vars

\* Two prompts, two test cases and the one model ModelZ: four combinations in one
\* invocation, in either mode.
InitScenario ==
    /\ EmptyStore
    /\ Idle
    /\ mode \in {"sync", "async"}
    /\ prompts = {1, 2}
    /\ test_cases = {1, 2}
    /\ client_models = <<ModelZ>>
    /\ config_models = NULL
    /\ max_concurrent \in 1..MaxCap
    /\ mode = "sync" => max_concurrent = 1
    /\ permits = max_concurrent
    /\ last_request_time = 0
NextScenario == EngineNext(1, MaxScenarioTicks)
SpecScenario == InitScenario /\ [][NextScenario]_vars

\* Between two invocations files are added to or removed from prompts_dir:
\* discover_prompts reads the directory anew at each invocation.
FilesChange ==
    /\ pc \in Ended /\ Live = {}
    /\ invocation < MaxInvocations
    /\ \E np \in 1..MaxPrompts :
          /\ 1..np # prompts
          /\ np * Cardinality(test_cases) * Len(ModelsUsed) <= MaxResumeCombos
          /\ prompts' = 1..np
    /\ UNCHANGED <<storeVars, now, clientVars, mode, test_cases, client_models,
                   config_models, max_concurrent, fleet, once, runVars, histVars>>

\* Up to MaxInvocations invocations on the same TestRunner, the prompt files
\* changing in between.
NextRerun == NextResume \/ FilesChange
SpecRerun == InitResume /\ [][NextRerun]_vars

-----------------------------------------------------------------------------
(* SpecEnum: generate_experiment_combinations over bounded inputs *)

RECURSIVE SeqsUpTo(_, _)
SeqsUpTo(S, n) ==
    IF n = 0 THEN {<<>>}
    ELSE LET shorter == SeqsUpTo(S, n - 1)
         IN  shorter \cup {Append(q, x) : q \in shorter, x \in S}

ModelLists == SeqsUpTo(ModelNames, MaxModels)

\* The client and the storage are not used by the enumeration.
ClientUnused ==
    /\ mode = "sync"
    /\ max_concurrent = 1
    /\ permits = 1
    /\ last_request_time = 0

InitEnum ==
    /\ EmptyStore
    /\ Idle
    /\ ClientUnused
    /\ prompts \in (SUBSET PromptNames) \ {{}}
    /\ test_cases \in (SUBSET TestNames) \ {{}}
    /\ client_models \in ModelLists
    /\ config_models \in {NULL} \cup {Some(ms) : ms \in ModelLists}

Enumerate ==
    /\ pc = "idle"
    /\ combinations' = generate_experiment_combinations
    /\ pc' = "enumerated"
    /\ UNCHANGED <<storeVars, now, clientVars, configVars, fleet, once, run_id, task,
                   successful_experiments, completed_experiments, histVars>>

NextEnum == Enumerate

SpecEnum == InitEnum /\ [][NextEnum]_vars

-----------------------------------------------------------------------------
(* SpecStore: the store's public write operations, called in any order *)

\* Payloads of store_result: two well-formed ones, one with a status outside the
\* CHECK list and one without the required system_message.
StorePayloads ==
    {[system_message |-> Some("s"), user_message |-> Some("u"),
      response_content |-> Some("response"), status |-> "success",
      error_details |-> NULL],
     [system_message |-> Some("s"), user_message |-> Some("u"),
      response_content |-> NULL, status |-> "timeout",
      error_details |-> Some("detail")],
     [system_message |-> Some("s"), user_message |-> Some("u"),
      response_content |-> NULL, status |-> "cancelled",
      error_details |-> NULL],
     [system_message |-> NULL, user_message |-> Some("u"),
      response_content |-> Some("response"), status |-> "success",
      error_details |-> NULL]}

StorePrompts == {1, 2}
\* (total_experiments, config_snapshot) arguments of start_run
StoreRunArgs == {<<1, Some("snapshot")>>, <<2, NULL>>}

InitStore ==
    /\ EmptyStore
    /\ Idle
    /\ ClientUnused
    /\ prompts = {1}
    /\ test_cases = {1}
    /\ client_models = <<1>>
    /\ config_models = NULL

\* In SpecStore pc is the caller's position after its last call of the store:
\* "raised" when store_result raised sqlite3.IntegrityError, else "idle".
callerVars == <<run_id, combinations, task, successful_experiments, completed_experiments>>

ApiStartRun(run, total, snapshot) ==
    /\ start_run(run, total, snapshot)
    /\ pc' = "idle"
    /\ UNCHANGED <<rows, nextId, now, clientVars, configVars, fleet, once, callerVars, histVars>>

\* nextId bounds the number of inserts of a behaviour.
ApiStoreResult(run, p, payload) ==
    /\ nextId <= MaxStores
    /\ store_result(run, p, 1, 1, payload)
    /\ pc' = IF store_result_raises(run, p, 1, 1, payload) THEN "raised" ELSE "idle"
    /\ UNCHANGED <<cache, now, clientVars, configVars, fleet, once, callerVars, histVars>>

ApiCompleteRun(run, k) ==
    /\ complete_run(run, k)
    /\ pc' = "idle"
    /\ UNCHANGED <<nextId, now, clientVars, configVars, fleet, once, callerVars, histVars>>

ApiTick ==
    /\ now < T0 + MaxStoreTicks
    /\ now' = now + 1
    /\ UNCHANGED <<storeVars, clientVars, configVars, fleet, once, runVars, histVars>>

NextStore ==
    \/ \E run \in Runs, a \in StoreRunArgs : ApiStartRun(run, a[1], a[2])
    \/ \E run \in Runs, p \in StorePrompts, payload \in StorePayloads :
          ApiStoreResult(run, p, payload)
    \/ \E run \in Runs, k \in 0..1 : ApiCompleteRun(run, k)
    \/ ApiTick

SpecStore == InitStore /\ [][NextStore]_vars

-----------------------------------------------------------------------------
(* ExperimentStorage: the read operations. A SELECT whose ORDER BY leaves ties, or
   that has a LIMIT, may return any of the results the clause allows: each read is
   the set of its possible results. *)

\* The orderings of a finite set: the sequences that list each element once.
Orderings(S) ==
    {s \in [1..Cardinality(S) -> S] : \A i, j \in DOMAIN s : s[i] = s[j] => i = j}

\* The mutant is ORDER BY timestamp DESC.
OrderByTimestampDesc(S) ==
    {s \in Orderings(S) :
        \A i, j \in DOMAIN s : i < j => s[i].timestamp >= s[j].timestamp}

\* ORDER BY timestamp
OrderByTimestamp(S) ==
    {s \in Orderings(S) :
        \A i, j \in DOMAIN s : i < j => s[i].timestamp <= s[j].timestamp}

\* get_results_by_run: SELECT * FROM experiments WHERE run_id = ? ORDER BY timestamp
get_results_by_run(run) == OrderByTimestamp(RunRows(rows, run))

\* get_latest_run_id: ... ORDER BY run_started_timestamp DESC LIMIT 1; the run_id
\* of a first row, None without rows.
get_latest_run_id ==
    IF rows = {} THEN {NULL}
    ELSE {Some(r.run_id) : r \in {q \in rows : \A o \in rows :
                                     o.run_started_timestamp <= q.run_started_timestamp}}

\* GROUP BY run_id with MIN(run_started_timestamp) as sort_time
SortTime(run) ==
    LET times == {r.run_started_timestamp : r \in RunRows(rows, run)}
    IN  CHOOSE t \in times : \A u \in times : t <= u

\* get_all_run_ids: SELECT DISTINCT run_id, MIN(run_started_timestamp) as sort_time
\* ... GROUP BY run_id ORDER BY sort_time; the run ids of the rows returned.
get_all_run_ids ==
    {s \in Orderings({r.run_id : r \in rows}) :
        \A i, j \in DOMAIN s : i < j => SortTime(s[i]) <= SortTime(s[j])}

-----------------------------------------------------------------------------
(* SpecQuery: the store read after any sequence of start_run, store_result and
   complete_run calls with well-formed arguments, over three instants *)

QueryPayload ==
    [system_message |-> Some("s"), user_message |-> Some("u"),
     response_content |-> Some("response"), status |-> "success",
     error_details |-> NULL]

QueryStartRun(run, total, snapshot) ==
    /\ start_run(run, total, snapshot)
    /\ UNCHANGED <<rows, nextId, now, clientVars, configVars, fleet, once, runVars, histVars>>

\* nextId bounds the number of inserts of a behaviour.
QueryStoreResult(run, p) ==
    /\ nextId <= MaxQueryStores
    /\ store_result(run, p, 1, 1, QueryPayload)
    /\ UNCHANGED <<cache, now, clientVars, configVars, fleet, once, runVars, histVars>>

QueryCompleteRun(run, k) ==
    /\ complete_run(run, k)
    /\ UNCHANGED <<nextId, now, clientVars, configVars, fleet, once, runVars, histVars>>

QueryTick ==
    /\ now < T0 + MaxQueryTicks
    /\ now' = now + 1
    /\ UNCHANGED <<storeVars, clientVars, configVars, fleet, once, runVars, histVars>>

NextQuery ==
    \/ \E run \in Runs : QueryStartRun(run, 1, Some("snapshot"))
    \/ \E run \in Runs, p \in StorePrompts : QueryStoreResult(run, p)
    \/ \E run \in Runs : QueryCompleteRun(run, 1)
    \/ QueryTick

SpecQuery == InitStore /\ [][NextQuery]_vars

-----------------------------------------------------------------------------
(* SpecOnce: run_single_experiment and run_single_experiment_async, one call at a
   time, with provider error texts drawn from the trigger words *)

RECURSIVE SubsetsUpTo(_, _)
SubsetsUpTo(S, n) ==
    IF n = 0 THEN {{}}
    ELSE LET smaller == SubsetsUpTo(S, n - 1)
         IN  smaller \cup {s \cup {x} : s \in smaller, x \in S}

\* Provider error texts: up to MaxTriggers of the words _classify_error looks for.
OnceErrorTexts == SubsetsUpTo(Triggers, MaxTriggers)
OnceOutcomes == {Some(t) : t \in OnceErrorTexts} \cup {NULL}
OnceArgs == {<<1, 1, m>> : m \in ModelNames}

InitOnce ==
    /\ EmptyStore
    /\ Idle
    /\ mode \in {"sync", "async"}
    /\ prompts = {1}
    /\ test_cases = {1}
    /\ client_models \in EngineClientModels
    /\ config_models = NULL
    /\ max_concurrent = 1
    /\ permits = max_concurrent
    /\ last_request_time = 0

OnceRec(st, c, wake, result, raised) ==
    [pc |-> st, c |-> Some(c), wake |-> wake, result |-> result, raised |-> raised]

\* The pacing check of complete / complete_async, then the sleep or the call.
OncePaced(c) ==
    LET elapsed == now - last_request_time IN
    IF elapsed < request_delay
    THEN /\ once' = OnceRec("sleep", c, now + (request_delay - elapsed), NULL, NULL)
         /\ UNCHANGED <<last_request_time, starts>>
    ELSE /\ once' = OnceRec("call", c, 0, NULL, NULL)
         /\ last_request_time' = IF mode = "async" THEN now ELSE last_request_time
         /\ starts' = Append(starts, now)

\* _run_experiment_core_*: the two files are loaded outside the try block, then the
\* client is called inside it.
OnceCall(c) ==
    /\ once.pc \in {"idle", "returned", "raised"}
    /\ Len(starts) < MaxOnceCalls
    /\ \/ /\ once' = OnceRec("raised", c, 0, NULL, Some("FileNotFoundError"))
          /\ UNCHANGED <<clientVars, starts>>
       \/ /\ ~ModelConfigured(c[3])
          /\ once' = OnceRec("returned", c, 0, Some(UnconfiguredResult(c)), NULL)
          /\ UNCHANGED <<clientVars, starts>>
       \/ /\ ModelConfigured(c[3])
          /\ permits' = IF mode = "async" THEN permits - 1 ELSE permits
          /\ OncePaced(c)
    /\ UNCHANGED <<storeVars, now, configVars, fleet, runVars, invocation, hist>>

\* The pacing sleep is over; the call starts.
OnceWake ==
    /\ once.pc = "sleep"
    /\ now >= once.wake
    /\ once' = OnceRec("call", Val(once.c), 0, NULL, NULL)
    /\ last_request_time' = IF mode = "async" THEN now ELSE last_request_time
    /\ starts' = Append(starts, now)
    /\ UNCHANGED <<storeVars, now, permits, configVars, fleet, runVars, invocation, hist>>

\* completion / acompletion returns or raises; the experiment core turns either
\* into the ExperimentResult it returns.
OnceReturn ==
    /\ once.pc = "call"
    /\ \E outcome \in OnceOutcomes :
          /\ once' = OnceRec("returned", Val(once.c), 0,
                             Some(CallResult(Val(once.c), outcome)), NULL)
          /\ last_request_time' =
                 IF mode = "sync" THEN SyncStamp(outcome) ELSE last_request_time
    /\ permits' = IF mode = "async" THEN permits + 1 ELSE permits
    /\ UNCHANGED <<storeVars, now, configVars, fleet, runVars, histVars>>

\* An interrupt (sync) or a cancellation (async) during the sleep or the call.
OnceInterrupt ==
    /\ once.pc \in {"sleep", "call"}
    /\ LET cls == IF mode = "async" THEN "CancelledError" ELSE "KeyboardInterrupt" IN
       once' = IF CaughtByExceptException(cls)
               THEN OnceRec("returned", Val(once.c), 0,
                            Some(handle_experiment_error(
                                     create_experiment_result(Val(once.c)), cls, {})),
                            NULL)
               ELSE OnceRec("raised", Val(once.c), 0, NULL, Some(cls))
    /\ permits' = IF mode = "async" THEN permits + 1 ELSE permits
    /\ UNCHANGED <<storeVars, now, last_request_time, configVars, fleet, runVars, histVars>>

OnceTick ==
    /\ once.pc \in {"sleep", "call"}
    /\ now < T0 + MaxOnceTicks
    /\ now' = now + 1
    /\ UNCHANGED <<storeVars, clientVars, configVars, fleet, runVars, histVars, once>>

NextOnce ==
    \/ \E c \in OnceArgs : OnceCall(c)
    \/ OnceWake
    \/ OnceReturn
    \/ OnceInterrupt
    \/ OnceTick

SpecOnce == InitOnce /\ [][NextOnce]_vars

-----------------------------------------------------------------------------
(* SpecFleet: several TestRunner objects in one process, each running
   run_experiments_async in the same event loop. TestRunner.__init__ builds its own
   LLMClient, and LLMClient.__init__ its own asyncio.Semaphore and pacing timestamp.
   Each runner has its own ExperimentStorage on the shared database file; since the
   runs have different identifiers their metadata caches are the entries of `cache`.
   File loads and stores succeed and no interrupt arrives here. *)

FleetRunners == Runs

\* TestRunner(config): a client with all its slots free, and no run yet.
FleetRunner0 ==
    [pc |-> "gather", permits |-> max_concurrent, last_request_time |-> 0,
     task |-> [i \in 1..Len(generate_experiment_combinations) |->
                 TaskRec("pending", 0, NULL)],
     successful_experiments |-> 0]

FleetTasks(r) == DOMAIN fleet[r].task
FleetSet(r, f) == [fleet EXCEPT ![r] = f]
FleetAllStarted(r) == \A i \in FleetTasks(r) : fleet[r].task[i].st # "pending"

InitFleet ==
    /\ EmptyStore
    /\ Idle
    /\ mode = "async"
    /\ \E np \in 1..MaxFleetCombos : prompts = 1..np
    /\ test_cases = {1}
    /\ client_models = <<1>>
    /\ config_models = NULL
    /\ max_concurrent \in 1..MaxCap
    /\ permits = max_concurrent
    /\ last_request_time = 0

\* Runner r is constructed and its run_experiments_async runs up to the await of
\* gather; its run takes the identifier r.
FleetBegin(r) ==
    /\ r = Len(fleet) + 1
    /\ start_run(r, Len(generate_experiment_combinations),
                 Some(create_run_config_snapshot))
    /\ fleet' = Append(fleet, FleetRunner0)
    /\ UNCHANGED <<rows, nextId, now, clientVars, configVars, once, runVars, histVars>>

\* complete_async inside `async with self._rate_limiter`, on runner r's client.
FleetPaced(f, i) ==
    LET elapsed == now - f.last_request_time IN
    IF elapsed < request_delay
    THEN [f EXCEPT !.task[i] = TaskRec("sleep", now + (request_delay - elapsed), NULL)]
    ELSE [f EXCEPT !.task[i] = TaskRec("call", 0, NULL), !.last_request_time = now]

FleetEnter(f, i) == FleetPaced([f EXCEPT !.permits = @ - 1], i)

FleetStart(r, i) ==
    /\ r \in DOMAIN fleet
    /\ i \in FleetTasks(r)
    /\ fleet[r].pc = "gather"
    /\ fleet[r].task[i].st = "pending"
    /\ \A j \in 1..(i - 1) : fleet[r].task[j].st # "pending"
    /\ fleet' = FleetSet(r, IF CanAcquire(fleet[r].permits)
                            THEN FleetEnter(fleet[r], i)
                            ELSE [fleet[r] EXCEPT !.task[i] = TaskRec("sem", 0, NULL)])
    /\ UNCHANGED <<storeVars, now, clientVars, configVars, once, runVars, histVars>>

FleetAcquire(r, i) ==
    /\ r \in DOMAIN fleet
    /\ i \in FleetTasks(r)
    /\ FleetAllStarted(r)
    /\ fleet[r].task[i].st = "sem"
    /\ CanAcquire(fleet[r].permits)
    /\ fleet' = FleetSet(r, FleetEnter(fleet[r], i))
    /\ UNCHANGED <<storeVars, now, clientVars, configVars, once, runVars, histVars>>

FleetWake(r, i) ==
    /\ r \in DOMAIN fleet
    /\ i \in FleetTasks(r)
    /\ FleetAllStarted(r)
    /\ fleet[r].task[i].st = "sleep"
    /\ now >= fleet[r].task[i].wake
    /\ fleet' = FleetSet(r, [fleet[r] EXCEPT !.task[i] = TaskRec("call", 0, NULL),
                                              !.last_request_time = now])
    /\ UNCHANGED <<storeVars, now, clientVars, configVars, once, runVars, histVars>>

\* acompletion returns or raises, the slot is released, the result is stored under
\* the runner's run and counted.
FleetReturn(r, i) ==
    /\ r \in DOMAIN fleet
    /\ i \in FleetTasks(r)
    /\ FleetAllStarted(r)
    /\ fleet[r].task[i].st = "call"
    /\ \E outcome \in ProviderOutcomes :
          LET c == generate_experiment_combinations[i]
              res == CallResult(c, outcome)
          IN  /\ store_result(r, c[1], c[2], c[3], res)
              /\ fleet' = FleetSet(r,
                    [fleet[r] EXCEPT
                       !.task[i] = TaskRec("done", 0, Some(res.status)),
                       !.permits = @ + 1,
                       !.successful_experiments = CountSuccess(@, res.status)])
    /\ UNCHANGED <<cache, now, clientVars, configVars, once, runVars, histVars>>

\* gather returned: complete_run and the summary.
FleetFinish(r) ==
    /\ r \in DOMAIN fleet
    /\ fleet[r].pc = "gather"
    /\ \A i \in FleetTasks(r) : fleet[r].task[i].st = "done"
    /\ complete_run(r, fleet[r].successful_experiments)
    /\ fleet' = FleetSet(r, [fleet[r] EXCEPT !.pc = "returned"])
    /\ UNCHANGED <<nextId, now, clientVars, configVars, once, runVars, histVars>>

FleetWakeupDue ==
    \E r \in DOMAIN fleet :
        /\ FleetAllStarted(r)
        /\ fleet[r].permits > 0
        /\ \E i \in FleetTasks(r) : fleet[r].task[i].st = "sem"

FleetTick ==
    /\ \E r \in DOMAIN fleet : fleet[r].pc = "gather"
    /\ ~FleetWakeupDue
    /\ now < T0 + MaxFleetTicks
    /\ now' = now + 1
    /\ UNCHANGED <<storeVars, clientVars, configVars, fleet, once, runVars, histVars>>

NextFleet ==
    \/ \E r \in FleetRunners : FleetBegin(r)
    \/ \E r \in FleetRunners, i \in 1..MaxFleetCombos : FleetStart(r, i)
    \/ \E r \in FleetRunners, i \in 1..MaxFleetCombos : FleetAcquire(r, i)
    \/ \E r \in FleetRunners, i \in 1..MaxFleetCombos : FleetWake(r, i)
    \/ \E r \in FleetRunners, i \in 1..MaxFleetCombos : FleetReturn(r, i)
    \/ \E r \in FleetRunners : FleetFinish(r)
    \/ FleetTick

SpecFleet == InitFleet /\ [][NextFleet]_vars

-----------------------------------------------------------------------------
(* Properties *)

\* get_run_summary: MIN(column) over the run's rows; NULL when every value is NULL.
SqlMin(values) ==
    LET present == {Val(v) : v \in {w \in values : ~IsNull(w)}}
    IN  IF present = {} THEN NULL
        ELSE Some(CHOOSE x \in present : \A y \in present : x <= y)

get_run_summary(run) ==
    [total_experiments |-> Cardinality(RunRows(rows, run)),
     successful |-> Cardinality({r \in RunRows(rows, run) : r.status = "success"}),
     run_completed_timestamp |->
         SqlMin({r.run_completed_timestamp : r \in RunRows(rows, run)}),
     run_total_experiments |->
         SqlMin({r.run_total_experiments : r \in RunRows(rows, run)}),
     run_successful_experiments |->
         SqlMin({r.run_successful_experiments : r \in RunRows(rows, run)})]

\* The keys run_experiments[_async] stores for the enumerated combinations.
ComboKeys == {<<run_id, combinations[i][1], combinations[i][2], combinations[i][3]>> :
                 i \in Tasks}

NoDuplicates(s) == \A i, j \in 1..Len(s) : s[i] = s[j] => i = j

(* C1: under SpecStore, in every reachable state of the store at most one row
   exists per (run id, prompt, test case, configured model): a store_result with
   a key that is already stored replaces the row, it does not add a second one. *)
C1_UniqueKey ==
    \A r1, r2 \in rows : Key(r1) = Key(r2) => r1 = r2

\* Two inserts were made and one row is stored: the second replaced the first.
C1_Witness ==
    /\ nextId = 3
    /\ Cardinality(rows) = 1

(* C4: in bounded-concurrent mode the number of outbound calls in flight never
   exceeds the concurrency cap, also when more combinations than slots are
   scheduled. *)
InFlight == Cardinality({i \in Tasks : task[i].st = "call"})

C4_InFlightAtMostCap ==
    mode = "async" => /\ InFlight <= max_concurrent
                      /\ HeldBy(Tasks) + permits = max_concurrent

\* More combinations than slots, every slot busy with a call, one task waiting.
C4_Witness ==
    /\ mode = "async"
    /\ N > max_concurrent
    /\ max_concurrent > 1
    /\ InFlight = max_concurrent
    /\ \E i \in Tasks : task[i].st = "sem"

(* C10 as stated: for duplicate-free model lists, the enumeration yields P*T*M
   triples, each once, ordered prompt-major, then test case, then model, each of
   the three inputs sorted by identifier. *)
LexLess(a, b) ==
    \/ a[1] < b[1]
    \/ a[1] = b[1] /\ a[2] < b[2]
    \/ a[1] = b[1] /\ a[2] = b[2] /\ a[3] < b[3]

Product == {<<p, t, m>> : p \in prompts, t \in test_cases, m \in SeqToSet(ModelsUsed)}

FullProductOnce ==
    /\ Len(combinations) =
          Cardinality(prompts) * Cardinality(test_cases) * Len(ModelsUsed)
    /\ SeqToSet(combinations) = Product
    /\ NoDuplicates(combinations)

C10_AllInputsSorted ==
    (pc = "enumerated" /\ NoDuplicates(ModelsUsed)) =>
        /\ FullProductOnce
        /\ \A i, j \in 1..Len(combinations) :
              i < j => LexLess(combinations[i], combinations[j])

(* C10 amended: for duplicate-free model lists, the enumeration yields P*T*M
   triples, each once, ordered prompt-major, then test case, then model, with
   prompts and test cases sorted by identifier and the models in the order of the
   list in use (config.models, else the client's configured order). *)
Position(s, x) == CHOOSE k \in 1..Len(s) : s[k] = x

ListOrderKey(c) == <<c[1], c[2], Position(ModelsUsed, c[3])>>

C10_ModelsInListOrder ==
    (pc = "enumerated" /\ NoDuplicates(ModelsUsed)) =>
        /\ FullProductOnce
        /\ \A i, j \in 1..Len(combinations) :
              i < j => LexLess(ListOrderKey(combinations[i]),
                               ListOrderKey(combinations[j]))

\* A caller-supplied list in descending order over two prompts and two test cases.
C10_Witness ==
    /\ pc = "enumerated"
    /\ config_models = Some(<<2, 1>>)
    /\ Cardinality(prompts) = 2
    /\ Cardinality(test_cases) = 2
    /\ Len(combinations) = 8

(* C2: under SpecResume, when run_experiments[_async] is invoked twice in a row
   with the same run id and unchanged prompts, test cases and models, and neither
   invocation met a file-load or storage failure, the run holds exactly P*T*M rows
   after the second invocation, under the same keys as after the first. *)
RerunOfSameRun ==
    /\ pc = "returned"
    /\ hist.faults = 0
    /\ ~IsNull(hist.prev)
    /\ Val(hist.prev).run = run_id
    /\ Val(hist.prev).returned
    /\ Val(hist.prev).faults = 0

C2_RerunKeepsOneRowPerCombination ==
    RerunOfSameRun =>
        /\ Cardinality(RunRows(rows, run_id)) =
              Cardinality(prompts) * Cardinality(test_cases) * Len(ModelsUsed)
        /\ Keys(RunRows(rows, run_id)) = ComboKeys
        /\ Keys(RunRows(rows, run_id)) = Val(hist.prev).keys

\* A second bounded-concurrent invocation over two combinations has returned.
C2_Witness ==
    /\ RerunOfSameRun
    /\ mode = "async"
    /\ N = 2

(* C3: when an invocation returns without a file-load or storage failure, in
   either mode and for every interleaving of the tasks, the final success count
   handed to complete_run is N - K, K being the number of combinations whose
   completion failed, every row of the run carries it, and all N rows are stored. *)
FailedTasks == {i \in Tasks : task[i].status # Some("success")}

C3_SuccessCountIsTotalMinusFailures ==
    (pc = "returned" /\ hist.faults = 0) =>
        LET k == Cardinality(FailedTasks) IN
        /\ successful_experiments = N - k
        /\ mode = "async" => completed_experiments = N
        /\ Keys(RunRows(rows, run_id)) = ComboKeys
        /\ Cardinality(RunRows(rows, run_id)) = N
        /\ \A r \in RunRows(rows, run_id) : r.run_successful_experiments = Some(N - k)

\* Three concurrent combinations, two of which failed.
C3_Witness ==
    /\ pc = "returned"
    /\ hist.faults = 0
    /\ mode = "async"
    /\ max_concurrent = 2
    /\ N = 3
    /\ Cardinality(FailedTasks) = 2

(* C5: in bounded-concurrent mode with a cap above 1, the starts of any two
   outbound calls are at least request_delay apart. *)
C5_AsyncStartsPaced ==
    (mode = "async" /\ max_concurrent > 1) =>
        \A i, j \in 1..Len(starts) : i < j => starts[j] - starts[i] >= request_delay

(* C6: in sequential mode, the starts of two consecutive outbound calls are at
   least request_delay apart, whether the earlier call succeeded or failed. *)
C6_SyncStartsPaced ==
    mode = "sync" =>
        \A i \in 1..(Len(starts) - 1) : starts[i + 1] - starts[i] >= request_delay

(* C7: in bounded-concurrent mode, complete_run is called only when every task of
   the batch has finished, whatever the tasks' outcomes. *)
C7_CompleteOnlyAfterAllFinished ==
    (mode = "async" /\ hist.complete_called) => ~hist.complete_pending

(* C8: after a file-load or storage failure during the batch, the invocation does
   not return normally: the failure reaches the caller, in either mode. *)
C8_BatchFailurePropagates ==
    pc = "returned" => hist.faults = 0

(* C9: under SpecResume, an interrupt during the batch (either mode) leaves every
   stored row as it is, ends the invocation without a call of complete_run, and a
   run that had no completion data keeps none. *)
SummaryAbsent(run) ==
    /\ IsNull(get_run_summary(run).run_completed_timestamp)
    /\ IsNull(get_run_summary(run).run_successful_experiments)

C9_InterruptLeavesRunIncomplete ==
    /\ [][hist'.interrupted => rows' = rows]_vars
    /\ [](hist.interrupted =>
            /\ pc = "interrupted"
            /\ ~hist.complete_called
            /\ hist.fresh => SummaryAbsent(run_id))

\* Interrupted after a first result was stored, with a task cancelled.
C9_Witness ==
    /\ hist.interrupted
    /\ pc = "interrupted"
    /\ RunRows(rows, run_id) # {}
    /\ \E i \in Tasks : task[i].st = "cancelled"

-----------------------------------------------------------------------------
(* Properties of one experiment (SpecOnce) *)

OnceReturned == once.pc = "returned" /\ ~IsNull(once.result)
OnceResult == Val(once.result)
OnceFailed == OnceReturned /\ ~IsNull(OnceResult.error_details)
OnceDetail == Val(OnceResult.error_details)
\* The call ended with an error of the provider, classified by the client.
OnceProviderError == OnceFailed /\ OnceDetail.error_type \in LLMErrorClasses

(* C11 as stated: for every provider error text, a text containing "429" or
   "rate limit" gives status rate_limit, a text containing "timeout" gives status
   timeout, and a text with none of the recognised triggers gives unknown_error. *)
C11_ErrorTextDecidesStatus ==
    OnceProviderError =>
        LET text == OnceDetail.message
            status == OnceResult.status
        IN  /\ (Has(text, "429") \/ Has(text, "rate limit")) => status = "rate_limit"
            /\ Has(text, "timeout") => status = "timeout"
            /\ text = {} => status = "unknown_error"

(* C11 amended: for every provider error text, "429" or "rate limit" gives
   rate_limit unless the model is a Gemini model and the text names a Gemini or
   Google API key; "timeout" gives timeout unless a trigger tested before it is
   present; a text with none of the recognised triggers gives api_error. *)
C11_FirstMatchingRuleDecides ==
    OnceProviderError =>
        LET text == OnceDetail.message
            status == OnceResult.status
            gemini == Val(once.c)[3] \in GeminiModels
            geminiKey == gemini /\ (Has(text, "gemini_api_key") \/ Has(text, "google_api_key"))
            geminiQuota == gemini /\ (Has(text, "quota exceeded") \/ Has(text, "billing"))
            rate == Has(text, "429") \/ Has(text, "rate limit")
            auth == Has(text, "api key") \/ Has(text, "authentication") \/ Has(text, "401")
        IN  /\ (rate /\ ~geminiKey) => status = "rate_limit"
            /\ (Has(text, "timeout") /\ ~geminiKey /\ ~geminiQuota /\ ~rate /\ ~auth)
                   => status = "timeout"
            /\ text = {} => status = "api_error"

\* A Gemini model's error text with "429" and a missing API key: api_error.
C11_Witness ==
    /\ OnceProviderError
    /\ Val(once.c)[3] \in GeminiModels
    /\ OnceDetail.message = {"429", "gemini_api_key"}
    /\ OnceResult.status = "api_error"

(* C12 as stated: run_single_experiment[_async] never raises; every failure during
   it yields an ExperimentResult, and a failure outside the client's taxonomy
   yields unknown_error with the error's type and message in the detail. *)
C12_NeverRaises ==
    /\ once.pc # "raised"
    /\ (OnceFailed /\ ~OnceProviderError) =>
           /\ OnceResult.status = "unknown_error"
           /\ OnceDetail.error_type = "ValueError"
           /\ OnceDetail.message = {"not configured"}

(* C12 amended: every exception of the completion call, in or outside the client's
   taxonomy, becomes an ExperimentResult with a failing status and its detail, one
   outside the taxonomy with unknown_error and the error's type and message; only
   a file-load error, an interrupt or a cancellation leaves the call as an
   exception. *)
C12_CompletionFailuresCaptured ==
    /\ once.pc = "raised" =>
           Val(once.raised) \in {"FileNotFoundError"} \cup BaseExceptionOnly
    /\ once.pc = "returned" =>
           /\ OnceReturned
           /\ OnceResult.status \in STATUSES
           /\ (OnceResult.status = "success") = IsNull(OnceResult.error_details)
    /\ (OnceFailed /\ ~OnceProviderError) =>
           /\ OnceResult.status = "unknown_error"
           /\ OnceDetail.error_type = "ValueError"
           /\ OnceDetail.message = {"not configured"}

\* A synchronous call with a model that is not configured returned its result.
C12_Witness ==
    /\ OnceFailed
    /\ mode = "sync"
    /\ OnceDetail.error_type = "ValueError"
    /\ OnceResult.status = "unknown_error"

(* C13: under SpecOnce, a call of complete / complete_async with a model that is not
   among the configured models fails in the same step with ValueError: the call
   never waits or reaches the provider, takes no slot of the semaphore, and leaves
   _last_request_time and the clock as they are. *)
C13_UnconfiguredModelFailsAtOnce ==
    [][(~IsNull(once'.c) /\ Val(once'.c)[3] \notin SeqToSet(client_models)) =>
          /\ once'.pc \in {"returned", "raised"}
          /\ once'.pc = "returned" =>
                 /\ ~IsNull(once'.result)
                 /\ ~IsNull(Val(once'.result).error_details)
                 /\ Val(Val(once'.result).error_details).error_type = "ValueError"
          /\ permits' = permits
          /\ last_request_time' = last_request_time
          /\ starts' = starts
          /\ now' = now]_vars

\* After a call that reached the provider, a call with an unconfigured model failed.
C13_Witness ==
    /\ OnceFailed
    /\ OnceDetail.error_type = "ValueError"
    /\ mode = "async"
    /\ starts # <<>>

-----------------------------------------------------------------------------
(* Properties of the run metadata and of the store's constraints *)

(* C14: under SpecResume, while an invocation is between start_run and its
   complete_run, also when it resumes a run id that an earlier invocation
   completed, get_run_summary reports no completion timestamp and no success
   count for the run. *)
C14_SummaryAbsentWhileRunning ==
    pc \in {"loop", "gather"} => SummaryAbsent(run_id)

(* C15: under SpecStore, a store_result call whose row violates a NOT NULL or CHECK
   constraint raises and changes nothing: the table (a row stored under the same
   key included), the id counter and the cache are as before the call, and no row
   of the table ever lacks a required field or has a status outside the list. *)
C15_MalformedWriteNotApplied ==
    /\ [][pc' = "raised" => (rows' = rows /\ nextId' = nextId /\ cache' = cache)]_vars
    /\ [](\A r \in rows : /\ r.status \in STATUSES
                          /\ ~IsNull(r.system_message)
                          /\ ~IsNull(r.user_message))

\* A malformed write was refused while the store held a row.
C15_Witness ==
    /\ pc = "raised"
    /\ rows # {}

-----------------------------------------------------------------------------
(* Properties of the stored results *)

\* Exception classes an experiment can meet: the client's and others.
SomeExceptionClasses == LLMErrorClasses \cup {"ValueError", "FileNotFoundError", "OSError"}

(* C16: in every reachable state every stored row has a status of the closed list,
   and every status the engine produces, for the outcomes that occur and for
   every class of exception handed to _handle_experiment_error, is in the list. *)
C16_StatusesClosed ==
    /\ \A r \in rows : r.status \in STATUSES
    /\ \A i \in Tasks : ~IsNull(task[i].status) => Val(task[i].status) \in STATUSES
    /\ \A cls \in SomeExceptionClasses :
           handle_experiment_error(create_experiment_result(<<1, 1, 1>>), cls, {}).status
               \in STATUSES

\* A finished run stored a success, a timeout and an unclassified provider error.
C16_Witness ==
    /\ pc = "returned"
    /\ {r.status : r \in RunRows(rows, run_id)} = {"success", "timeout", "api_error"}

(* C17: under SpecResume, every stored row has a response text only if its status
   is success and an error detail only if its status is not success, also after
   a later invocation overwrote the row with a different outcome. *)
C17_ResponseXorErrorDetail ==
    \A r \in rows :
        /\ ~IsNull(r.response_content) => r.status = "success"
        /\ ~IsNull(r.error_details) => r.status # "success"

\* The first invocation stored a success for the only combination; the second
\* invocation, on the same run id, has overwritten the row with a failure.
C17_Witness ==
    /\ invocation = 2
    /\ N = 1
    /\ ~IsNull(hist.prev)
    /\ Val(hist.prev).run = run_id
    /\ Val(hist.prev).successful = 1
    /\ \E r \in RunRows(rows, run_id) :
          /\ r.id = 2
          /\ r.status # "success"
          /\ IsNull(r.response_content)
          /\ ~IsNull(r.error_details)

(* C18: under SpecResume, every row an invocation inserts carries the run id of
   that invocation and the metadata start_run registered for it at the head of
   the invocation (so start_run preceded the insert). *)
C18_StartRunBeforeStores ==
    [][\A r \in rows' :
          r.id >= nextId =>
              /\ r.run_id = run_id
              /\ ~IsNull(cache[run_id])
              /\ r.run_total_experiments = Some(N)
              /\ r.run_started_timestamp = Val(cache[run_id]).run_started_timestamp
              /\ r.run_started_timestamp <= r.timestamp]_vars

\* A second invocation under a new run id has stored a row next to the first run's.
C18_Witness ==
    /\ invocation = 2
    /\ run_id = 2
    /\ RunRows(rows, 1) # {}
    /\ RunRows(rows, 2) # {}

-----------------------------------------------------------------------------
(* Properties of the execution of the combinations *)

Settled == {"done", "raised", "cancelled"}
NewlyIn(st) == {i \in Tasks : task[i].st # st /\ task'[i].st = st}

(* C19: within one invocation, a combination starts at most one outbound call and
   is never run again after its call (no retry); its result is stored once, after
   the execution and in the step that counts it as completed; when the invocation
   returns without a file-load or storage failure every combination was stored
   exactly once. *)
C19_OneCallOneStore ==
    /\ [][invocation' = invocation =>
            /\ \A i \in Tasks :
                  /\ task[i].st \in Settled \cup {"call"} =>
                         task'[i].st \notin {"pending", "sem", "sleep"}
                  /\ task[i].st \in Settled => task'[i].st \in Settled
                  /\ i \in NewlyIn("done") =>
                         /\ task[i].st \in {"pending", "call"}
                         /\ nextId' = nextId + 1
                         /\ mode = "async" =>
                                completed_experiments' = completed_experiments + 1
            /\ Len(starts') - Len(starts) = Cardinality(NewlyIn("call"))
            /\ nextId' - nextId = Cardinality(NewlyIn("done"))
            /\ completed_experiments' - completed_experiments <= nextId' - nextId]_vars
    /\ [](/\ Len(starts) <= N
          /\ nextId - 1 <= N
          /\ (pc = "returned" /\ hist.faults = 0) => nextId - 1 = N)

\* Three concurrent combinations, one of them failed, each called and stored once.
C19_Witness ==
    /\ pc = "returned"
    /\ hist.faults = 0
    /\ mode = "async"
    /\ N = 3
    /\ Len(starts) = 3
    /\ nextId = 4
    /\ \E i \in Tasks : task[i].status = Some("timeout")

ComboIndex(r) ==
    CHOOSE i \in Tasks : combinations[i] = <<r.prompt_file, r.test_case_file, r.model_name>>
Begun == {"sleep", "call", "done", "raised"}

(* C20: in sequential mode a combination begins (its pacing wait, its call) only
   after every combination before it in the enumeration was executed and stored:
   at most one is under way, and the rows of the run were stored in enumeration
   order. *)
C20_SequentialInOrder ==
    mode = "sync" =>
        /\ \A i, j \in Tasks :
              (i < j /\ task[j].st \in Begun) => task[i].st = "done"
        /\ \A r1, r2 \in RunRows(rows, run_id) :
              ComboIndex(r1) < ComboIndex(r2) =>
                  /\ r1.id < r2.id
                  /\ r1.timestamp <= r2.timestamp

\* The third combination is in its call after the first two were stored.
C20_Witness ==
    /\ mode = "sync"
    /\ N = 3
    /\ task[3].st = "call"
    /\ Cardinality(RunRows(rows, run_id)) = 2

-----------------------------------------------------------------------------
(* Properties of several runs in one process (SpecFleet) *)

FleetInFlight(r) == Cardinality({i \in FleetTasks(r) : fleet[r].task[i].st = "call"})

RECURSIVE SumInFlight(_)
SumInFlight(n) == IF n = 0 THEN 0 ELSE FleetInFlight(n) + SumInFlight(n - 1)

(* C21: when two runs execute concurrently in bounded-concurrent mode in one
   process, the outbound calls in flight, counted over both runs, never exceed the
   configured cap max_concurrent_requests. *)
C21_CapSharedAcrossRuns == SumInFlight(Len(fleet)) <= max_concurrent

-----------------------------------------------------------------------------
(* Properties of the classification across models (SpecOnce) *)

\* The triggers _classify_error tests only for models whose name contains "gemini".
GeminiTriggers == {"gemini_api_key", "google_api_key", "quota exceeded", "billing"}

(* C22 as stated: the kind a provider failure is classified as depends on the error
   text alone: the same text gives the same kind whatever model was requested, and
   the failure gets exactly one kind. *)
C22_KindDependsOnTextOnly ==
    OnceProviderError =>
        \A m \in ModelNames :
            classify_error(OnceDetail.message, m) = OnceDetail.error_type

(* C22 amended: the kind depends on the error text and on whether the requested
   model is a Gemini model: the same text gives the same kind for two models when
   the text has none of the Gemini-specific triggers, or when both models are Gemini
   models or neither is; the failure gets exactly one kind of the client's list. *)
C22_KindDependsOnTextAndProvider ==
    OnceProviderError =>
        LET text == OnceDetail.message
            requested == Val(once.c)[3]
        IN  /\ OnceDetail.error_type \in LLMErrorClasses
            /\ \A m \in ModelNames :
                  (\/ text \cap GeminiTriggers = {}
                   \/ (m \in GeminiModels <=> requested \in GeminiModels))
                  => classify_error(text, m) = OnceDetail.error_type

\* A Gemini model's failure whose text has only triggers tested for every model.
C22_Witness ==
    /\ OnceProviderError
    /\ Val(once.c)[3] \in GeminiModels
    /\ OnceDetail.message = {"timeout", "network"}
    /\ OnceDetail.error_type = "TimeoutError"

-----------------------------------------------------------------------------
(* Properties of the store's read operations (SpecQuery) *)

\* A run identifier no operation ever used.
UnknownRun == MaxRuns + 1

(* C23: under SpecQuery, in every reachable state and for every run identifier,
   get_results_by_run returns the stored rows of that run and no others, each once,
   in non-decreasing order of their recording timestamp; for a run identifier
   without stored rows the result is empty. *)
C23_ResultsOfRunInTimeOrder ==
    \A run \in Runs \cup {UnknownRun} :
        /\ get_results_by_run(run) # {}
        /\ \A s \in get_results_by_run(run) :
              /\ SeqToSet(s) = {r \in rows : r.run_id = run}
              /\ Len(s) = Cardinality({r \in rows : r.run_id = run})
              /\ \A i \in 1..(Len(s) - 1) : s[i].timestamp <= s[i + 1].timestamp
        /\ (run = UnknownRun \/ ~\E r \in rows : r.run_id = run)
              => get_results_by_run(run) = {<<>>}

\* Run 1 has rows recorded at two instants and run 2 has a row as well.
C23_Witness ==
    /\ \E r, q \in RunRows(rows, 1) : r.timestamp < q.timestamp
    /\ RunRows(rows, 2) # {}
    /\ \E s \in get_results_by_run(1) : Len(s) = 2

-----------------------------------------------------------------------------
(* Properties of the completion of a run (SpecResume) *)

\* The step in which the invocation calls storage.complete_run.
Completing == ~hist.complete_called /\ hist'.complete_called

(* C24: under SpecResume, the complete_run(r, k) call of an invocation leaves every
   stored row of run r with the completion timestamp of the call and the success
   count k, also when an earlier invocation had completed r with another count, and
   get_run_summary(r) then reports that timestamp and k. *)
C24_CompleteRunOverwrites ==
    [][Completing =>
          /\ \A r \in RunRows(rows', run_id) :
                /\ r.run_completed_timestamp = Some(now)
                /\ r.run_successful_experiments = Some(successful_experiments)
          /\ RunRows(rows', run_id) # {} =>
                /\ get_run_summary(run_id)'.run_successful_experiments
                       = Some(successful_experiments)
                /\ get_run_summary(run_id)'.run_completed_timestamp = Some(now)]_vars

\* The second invocation on a run completed it with count 0 after the first had
\* completed it with count 1; the summary reports 0.
C24_Witness ==
    /\ invocation = 2
    /\ pc = "returned"
    /\ hist.complete_called
    /\ Live = {}
    /\ ~IsNull(hist.prev)
    /\ Val(hist.prev).run = run_id
    /\ Val(hist.prev).returned
    /\ Val(hist.prev).successful = 1
    /\ successful_experiments = 0
    /\ RunRows(rows, run_id) # {}
    /\ get_run_summary(run_id).run_successful_experiments = Some(0)

-----------------------------------------------------------------------------
(* Properties of the registration of a run (SpecStore) *)

(* C25: under SpecStore, a start_run(r, total, snapshot) call, first or repeated,
   adds and removes no stored row and registers total and snapshot for r in place
   of what was registered; every row store_result inserts for r while r is
   registered carries the total and the snapshot registered by the most recent
   start_run(r, ...). *)
C25_StartRunReplacesMetadata ==
    [][/\ \A run \in Runs, a \in StoreRunArgs :
             ApiStartRun(run, a[1], a[2]) =>
                /\ rows' = rows
                /\ ~IsNull(cache'[run])
                /\ Val(cache'[run]).run_total_experiments = Some(a[1])
                /\ Val(cache'[run]).run_config_snapshot = a[2]
                /\ Val(cache'[run]).run_started_timestamp = now
       /\ \A r \in rows' :
             (r.id >= nextId /\ ~IsNull(cache[r.run_id])) =>
                /\ r.run_total_experiments = Val(cache[r.run_id]).run_total_experiments
                /\ r.run_config_snapshot = Val(cache[r.run_id]).run_config_snapshot
       /\ \A run \in Runs :
             \/ cache'[run] = cache[run]
             \/ rows' = rows
             \/ /\ ~IsNull(cache[run]) /\ ~IsNull(cache'[run])
                /\ Val(cache'[run]).run_total_experiments
                       = Val(cache[run]).run_total_experiments
                /\ Val(cache'[run]).run_config_snapshot
                       = Val(cache[run]).run_config_snapshot]_vars

\* Run 1 was registered with total 1, a row was stored, run 1 was registered again
\* with total 2 and no snapshot, and the row stored after that carries those.
C25_Witness ==
    \E r, q \in RunRows(rows, 1) :
        /\ r.id < q.id
        /\ r.run_total_experiments = Some(1)
        /\ r.run_config_snapshot = Some("snapshot")
        /\ q.run_total_experiments = Some(2)
        /\ q.run_config_snapshot = NULL
        /\ ~IsNull(cache[1])
        /\ Val(cache[1]).run_total_experiments = Some(2)

-----------------------------------------------------------------------------
(* Properties of the 2 x 2 x 1 scenario (SpecScenario) *)

(* C26: under SpecScenario (prompts 1 and 2, test cases 1 and 2, the one model
   ModelZ whose provider fails with a timeout exactly for prompt 2 with test case
   2), in either mode, when the invocation has returned without a file-load or
   storage failure and without interrupt, the run is completed with declared total
   4 and success count 3, exactly one stored row is not a success, that row is the
   one of (2, 2, ModelZ) with status timeout and a non-empty error detail, and
   get_results_by_run returns 4 rows. *)
C26_OneTimeoutOfFour ==
    (pc = "returned" /\ hist.faults = 0 /\ ~hist.interrupted) =>
        LET stored == {r \in rows : r.run_id = run_id}
            failed == {r \in stored : r.status # "success"}
            summary == get_run_summary(run_id)
        IN  /\ hist.complete_called
            /\ summary.run_total_experiments = Some(4)
            /\ summary.run_successful_experiments = Some(3)
            /\ ~IsNull(summary.run_completed_timestamp)
            /\ Cardinality(failed) = 1
            /\ \A r \in failed :
                  /\ Key(r) = <<run_id, 2, 2, ModelZ>>
                  /\ r.status = "timeout"
                  /\ ~IsNull(r.error_details)
                  /\ Val(r.error_details).error_type = "TimeoutError"
                  /\ Val(r.error_details).message # {}
            /\ \A s \in get_results_by_run(run_id) : Len(s) = 4

\* The sequential run of the scenario has returned.
C26_Witness ==
    /\ mode = "sync"
    /\ pc = "returned"
    /\ hist.faults = 0
    /\ ~hist.interrupted
    /\ Cardinality(RunRows(rows, run_id)) = 4
    /\ \E r \in rows : r.status = "timeout"

-----------------------------------------------------------------------------
(* Properties of the run listings (SpecQuery) *)

RunsStored == {r.run_id : r \in rows}
StartsOf(run) == {r.run_started_timestamp : r \in RunRows(rows, run)}
\* The two candidates for "the start timestamp" of a run whose rows disagree.
EarliestStart(run) == CHOOSE t \in StartsOf(run) : \A u \in StartsOf(run) : t <= u
LatestStart(run) == CHOOSE t \in StartsOf(run) : \A u \in StartsOf(run) : u <= t

\* Both listings are right when start(run) is the start timestamp of a run.
ListingsFollow(start(_)) ==
    /\ \A l \in get_latest_run_id :
          IF rows = {} THEN IsNull(l)
          ELSE /\ ~IsNull(l)
               /\ Val(l) \in RunsStored
               /\ \A run \in RunsStored : start(run) <= start(Val(l))
    /\ \A s \in get_all_run_ids :
          /\ SeqToSet(s) = RunsStored
          /\ Len(s) = Cardinality(RunsStored)
          /\ \A i \in 1..(Len(s) - 1) : start(s[i]) <= start(s[i + 1])

(* C27: under SpecQuery, in every reachable state get_latest_run_id returns the run
   with the greatest start timestamp among the runs with stored rows (none when the
   table is empty) and get_all_run_ids returns each such run once in non-decreasing
   order of start timestamp, the start timestamp of a run being the earliest or the
   latest one recorded on its rows. *)
C27_ListingsFollowStartTime ==
    ListingsFollow(EarliestStart) \/ ListingsFollow(LatestStart)

-----------------------------------------------------------------------------
(* Frame of the store's writes (SpecResume) *)

(* C28: under SpecResume, no step of an invocation (its start_run, store_result and
   complete_run calls included) removes a stored key, and every step leaves the
   stored rows of every run other than the invocation's own run unchanged. *)
C28_KeysGrowOtherRunsUntouched ==
    [][/\ Keys(rows) \subseteq Keys(rows')
       /\ \A run \in Runs \ {run_id'} :
             {r \in rows' : r.run_id = run} = {r \in rows : r.run_id = run}]_vars

\* The second invocation completed run 2 while run 1, completed by the first
\* invocation with another success count, has its rows as they were.
C28_Witness ==
    /\ invocation = 2
    /\ run_id = 2
    /\ pc = "returned"
    /\ hist.complete_called
    /\ ~IsNull(hist.prev)
    /\ Val(hist.prev).run = 1
    /\ Val(hist.prev).returned
    /\ RunRows(rows, 1) # {}
    /\ RunRows(rows, 2) # {}
    /\ \A r \in RunRows(rows, 1) :
          /\ r.run_successful_experiments = Some(Val(hist.prev).successful)
          /\ r.run_successful_experiments # Some(successful_experiments)
    /\ \A r \in RunRows(rows, 2) :
          r.run_successful_experiments = Some(successful_experiments)

-----------------------------------------------------------------------------
(* Properties of the engine's status mapping (SpecOnce) *)

(* C29: under SpecOnce, every call of run_single_experiment[_async] that returns a
   failure has the status its exception's class maps to (RateLimitError to
   rate_limit, AuthenticationError and APIError to api_error, TimeoutError to
   timeout, NetworkError to network_error, InvalidModelError to invalid_model, any
   other class to unknown_error), and its error detail holds the class name, the
   message and the time of the handling. *)
C29_StatusByFailureClass ==
    OnceFailed =>
        LET kind == OnceDetail.error_type IN
        /\ OnceResult.status =
              CASE kind = "RateLimitError" -> "rate_limit"
                [] kind = "AuthenticationError" -> "api_error"
                [] kind = "TimeoutError" -> "timeout"
                [] kind = "NetworkError" -> "network_error"
                [] kind = "InvalidModelError" -> "invalid_model"
                [] kind = "APIError" -> "api_error"
                [] OTHER -> "unknown_error"
        /\ DOMAIN OnceDetail = {"error_type", "message", "timestamp"}
        /\ OnceDetail.timestamp = now
        /\ IsNull(OnceResult.response_content)

\* A provider error about a model that was not found: invalid_model.
C29_Witness ==
    /\ OnceFailed
    /\ OnceDetail.error_type = "InvalidModelError"
    /\ OnceDetail.message = {"model", "not found"}
    /\ OnceResult.status = "invalid_model"

-----------------------------------------------------------------------------
(* Properties of the recorded run configuration (Spec) *)

(* C30: when the combinations are enumerated from the client's models or from a
   subset of them selected by config.models, every row stored for the invocation's
   run carries a configuration snapshot whose model list is the list of models the
   combinations were enumerated from, and a declared total equal to the number of
   enumerated combinations. *)
C30_SnapshotListsModelsUsed ==
    SeqToSet(ModelsUsed) \subseteq SeqToSet(client_models) =>
        \A r \in RunRows(rows, run_id) :
            /\ ~IsNull(r.run_config_snapshot)
            /\ SeqToSet(Val(r.run_config_snapshot).models) = SeqToSet(ModelsUsed)
            /\ r.run_total_experiments = Some(N)

-----------------------------------------------------------------------------
(* Properties of the classifier's precedence (SpecOnce) *)

\* The kind the precedence rate limit > authentication > timeout > network >
\* invalid model > general API error gives an error text.
KindByPrecedence(text) ==
    CASE Has(text, "rate limit") \/ Has(text, "429") -> "RateLimitError"
      [] OTHER ->
    CASE Has(text, "api key") \/ Has(text, "authentication") \/ Has(text, "401")
           -> "AuthenticationError"
      [] OTHER ->
    CASE Has(text, "timeout") -> "TimeoutError"
      [] OTHER ->
    CASE Has(text, "network") \/ Has(text, "connection") -> "NetworkError"
      [] OTHER ->
    CASE Has(text, "model") /\ (Has(text, "not found") \/ Has(text, "invalid"))
           -> "InvalidModelError"
      [] OTHER -> "APIError"

(* C31 as stated: every provider error gets exactly one kind, the one the
   precedence rate limit, authentication, timeout, network, invalid model, general
   API error gives its text, whatever triggers the text matches. *)
C31_OnePrecedence ==
    OnceProviderError => OnceDetail.error_type = KindByPrecedence(OnceDetail.message)

(* C31 amended: every provider error gets exactly one kind, the one that precedence
   gives its text, unless the requested model is a Gemini model and the text has a
   Gemini-specific trigger: those are tested first, the API-key ones giving
   authentication and the quota ones rate limit. *)
C31_OnePrecedenceAfterGeminiRules ==
    OnceProviderError =>
        LET text == OnceDetail.message
            gemini == Val(once.c)[3] \in GeminiModels
        IN  /\ OnceDetail.error_type \in LLMErrorClasses
            /\ ~(gemini /\ text \cap GeminiTriggers # {})
                  => OnceDetail.error_type = KindByPrecedence(text)
            /\ (gemini /\ text \cap {"gemini_api_key", "google_api_key"} # {})
                  => OnceDetail.error_type = "AuthenticationError"
            /\ (gemini /\ text \cap {"gemini_api_key", "google_api_key"} = {}
                       /\ text \cap {"quota exceeded", "billing"} # {})
                  => OnceDetail.error_type = "RateLimitError"

\* A text with a timeout and a connection trigger, for a model that is not a Gemini
\* model: timeout wins.
C31_Witness ==
    /\ OnceProviderError
    /\ Val(once.c)[3] \notin GeminiModels
    /\ OnceDetail.message = {"timeout", "connection"}
    /\ OnceDetail.error_type = "TimeoutError"

-----------------------------------------------------------------------------
(* Properties of the run metadata against the stored rows (Spec) *)

(* C32: in either mode, once an invocation on a fresh run identifier has completed
   the run, none of its tasks is still under way and the run has stored rows, the
   success count stored for the run is the number of the run's stored rows with
   status success and the declared total stored for the run is the number of the
   run's stored rows. *)
C32_MetadataAgreesWithRows ==
    (hist.complete_called /\ pc = "returned" /\ Live = {}
                          /\ RunRows(rows, run_id) # {}) =>
        LET summary == get_run_summary(run_id)
        IN  /\ summary.run_successful_experiments = Some(summary.successful)
            /\ summary.run_total_experiments = Some(summary.total_experiments)

-----------------------------------------------------------------------------
(* Properties of the progress counters (Spec) *)

\* The step of a task that stores its result and reports its progress number, the
\* new value of completed_experiments.
Reporting == run_id' = run_id /\ completed_experiments' # completed_experiments

(* C33: at every moment of a bounded-concurrent invocation on a fresh run
   identifier, successful_experiments <= completed_experiments <= the number of
   rows stored for the run <= the declared total; and the progress numbers reported
   for the finished combinations are 1, 2, ... in the order of finishing, each in
   1..N and none twice. *)
C33_CountersOrdered ==
    /\ [](mode = "async" /\ pc # "idle" =>
             /\ successful_experiments <= completed_experiments
             /\ completed_experiments <= Cardinality({r \in rows : r.run_id = run_id})
             /\ Cardinality({r \in rows : r.run_id = run_id}) <= N
             /\ ~IsNull(cache[run_id])
             /\ Val(cache[run_id]).run_total_experiments = Some(N))
    /\ [][mode = "async" /\ Reporting =>
             /\ completed_experiments' = completed_experiments + 1
             /\ completed_experiments' \in 1..N]_vars

\* Two of three combinations have finished, one of them with success.
C33_Witness ==
    /\ mode = "async"
    /\ pc = "gather"
    /\ N = 3
    /\ completed_experiments = 2
    /\ successful_experiments = 1
    /\ Cardinality(RunRows(rows, run_id)) = 2

-----------------------------------------------------------------------------
(* Properties of the run metadata across invocations (SpecRerun) *)

RunLevel(r) ==
    <<r.run_started_timestamp, r.run_completed_timestamp, r.run_total_experiments,
      r.run_successful_experiments, r.run_config_snapshot>>

(* C34: under SpecRerun, once an invocation (the first on its run identifier or a
   resume, with the same or with other prompt files) has completed the run without
   file-load or storage failure and without interrupt, all stored rows of the run
   carry the same start timestamp, completion timestamp, declared total, success
   count and configuration snapshot. *)
C34_OneMetadataPerRun ==
    (pc = "returned" /\ hist.complete_called /\ Live = {}
        /\ hist.faults = 0 /\ ~hist.interrupted
        /\ (~IsNull(hist.prev) =>
               Val(hist.prev).returned /\ Val(hist.prev).faults = 0)) =>
        \A r, q \in RunRows(rows, run_id) : RunLevel(r) = RunLevel(q)

-----------------------------------------------------------------------------
(* C35 *)

SlotsInUse == max_concurrent - permits

AllStored ==
    \A i \in Tasks :
        /\ task[i].st = "done"
        /\ <<run_id, combinations[i][1], combinations[i][2], combinations[i][3]>>
               \in Keys(RunRows(rows, run_id))

BatchOver == pc \in Ended /\ Live = {}

\* C35: in bounded-concurrent mode the slots in use are exactly those of the tasks
\* inside the critical section, so none is in use once the batch is over; under a
\* fair event loop where every call in flight returns or fails, an invocation that
\* began ends, with no slot in use, and unless a file load, the store or an interrupt
\* cut it short every enumerated combination was executed and stored.
C35_SlotsReleasedAndBatchEnds ==
    /\ [](SlotsInUse = HeldBy(Tasks))
    /\ (pc = "gather") ~>
          (/\ BatchOver
           /\ SlotsInUse = 0
           /\ (hist.faults = 0 /\ ~hist.interrupted) => AllStored)

C35_Witness ==
    /\ mode = "async" /\ pc = "returned"
    /\ max_concurrent = 1 /\ N >= 2
    /\ hist.faults = 0 /\ ~hist.interrupted
    /\ BatchOver /\ SlotsInUse = 0 /\ AllStored
    /\ Len(starts) = N

-----------------------------------------------------------------------------
(* C36 *)

\* C36: an invocation over an empty combination set that no interrupt cut short
\* ends by returning the run identifier, after complete_run registered a success
\* count of 0.
C36_EmptyBatchCompletes ==
    (pc \in Ended /\ N = 0 /\ ~hist.interrupted /\ hist.faults = 0) =>
        /\ pc = "returned"
        /\ hist.complete_called
        /\ successful_experiments = 0

-----------------------------------------------------------------------------
(* C37 *)

\* Combination i, pending before the step, was executed by it: its task moved on
\* and was neither cancelled nor ended by a file-load or storage failure.
Executed(i) ==
    /\ pc \in {"loop", "gather"}
    /\ combinations' = combinations
    /\ task[i].st = "pending"
    /\ task'[i].st \notin {"pending", "cancelled", "raised"}

RowOf(tbl, i) ==
    {r \in tbl : Key(r) = <<run_id, combinations[i][1], combinations[i][2],
                            combinations[i][3]>>}

\* C37: when run_experiments or run_experiments_async executes a combination whose
\* model the client does not list, the step starts no outbound call and takes no
\* slot, stores the combination's row with status unknown_error and a ValueError
\* detail and no response, leaves the success counter as it is, and leaves the
\* batch running with the task finished.
C37_UnconfiguredStoredAsUnknownError ==
    [][\A i \in Tasks :
          (Executed(i) /\ combinations[i][3] \notin SeqToSet(client_models)) =>
              /\ starts' = starts
              /\ permits' = permits
              /\ \E r \in RowOf(rows', i) :
                    /\ r.status = "unknown_error"
                    /\ r.status # "invalid_model"
                    /\ IsNull(r.response_content)
                    /\ ~IsNull(r.error_details)
                    /\ Val(r.error_details).error_type = "ValueError"
              /\ task'[i].st = "done"
              /\ pc' = pc
              /\ successful_experiments' = successful_experiments]_vars

\* A batch of two or more combinations over an unconfigured model ran to its end:
\* every combination has its unknown_error row, no call was started and the
\* success count is 0.
C37_Witness ==
    /\ pc = "returned" /\ hist.complete_called
    /\ N >= 2
    /\ \A i \in Tasks :
          /\ combinations[i][3] \notin SeqToSet(client_models)
          /\ \E r \in RowOf(rows, i) : r.status = "unknown_error"
    /\ starts = <<>>
    /\ successful_experiments = 0
    /\ \A r \in RunRows(rows, run_id) : r.run_successful_experiments = Some(0)

====
